---- MODULE Spec2Model ----
(***************************************************************************)
(* Session-scoped investigation state machine of detective-ai.             *)
(*                                                                         *)
(* The model follows the most recent ("tag based") revision of the chat    *)
(* handler, src/backend/server.js lines 1873-2817, together with the store *)
(* helpers of backend/db/gameData.js in their later revision               *)
(* (src/unnamed/part_014), the revision whose deleteSession returns the    *)
(* deleted rows the handlers of that server revision test.                 *)
(*                                                                         *)
(* JavaScript objects are records; a property the object does not have is  *)
(* a field outside DOMAIN.  Texts (user messages, model replies) are       *)
(* sequences of tokens: words, the three control tags, "," and "NL".       *)
(***************************************************************************)
EXTENDS Integers, Sequences, FiniteSets, TLC

\* ------------------------------------------------------------------ bounds
MaxTurns    == 2      \* chat requests started in one behaviour
MaxEngineSteps == 3   \* calls applied in the engine specification

ChatSlots == {1, 2}   \* chat requests that may be in flight together
SessSlots == {1, 2}   \* POST /api/sessions requests that may be in flight together

\* ------------------------------------------------------- JavaScript objects
Null == "<null>"

Has(o, k) == k \in DOMAIN o

\* Array.isArray(o.k) ? o.k : []
ArrayOrEmpty(o, k) == IF Has(o, k) THEN o[k] ELSE <<>>

\* { ...o, k: v }
With(o, k, v) == [x \in (DOMAIN o) \cup {k} |-> IF x = k THEN v ELSE o[x]]

\* delete o.k for every k of ks
Without(o, ks) == [x \in (DOMAIN o) \ ks |-> o[x]]

\* { ...a, ...b }
Spread(a, b) == [x \in (DOMAIN a) \cup (DOMAIN b) |-> IF x \in DOMAIN b THEN b[x] ELSE a[x]]

Range(s) == {s[i] : i \in 1..Len(s)}

Ids(log) == {log[i].id : i \in 1..Len(log)}

Min(S) == CHOOSE x \in S : \A y \in S : x <= y

\* Array.prototype.slice(-n)
LastN(s, n) == IF Len(s) <= n THEN s ELSE SubSeq(s, Len(s) - n + 1, Len(s))

\* ---------------------------------------------------------------- case data
\* One authored case: the rows of case_immutable_records and
\* case_initial_data that the helpers select.
CaseId == "case_1"

LocStudy ==
  [id |-> "study", name |-> "Study", scene_description |-> "scene_study",
   keywords |-> <<"study">>,
   interactables |-> << [id |-> "desk", name |-> "Desk", keywords |-> <<"desk">>],
                        [id |-> "vase", name |-> "Vase", keywords |-> <<"vase">>] >>]

LocKitchen ==
  [id |-> "kitchen", name |-> "Kitchen", scene_description |-> "scene_kitchen",
   keywords |-> <<"kitchen">>,
   interactables |-> << [id |-> "knife_block", name |-> "Knife block",
                         keywords |-> <<"knife">>] >>]

EvidenceRows ==
  << [id |-> "clue_letter", name |-> "Letter", description |-> "desc_letter",
      trigger_object_id |-> "desk"],
     [id |-> "clue_knife", name |-> "Knife", description |-> "desc_knife",
      trigger_object_id |-> "knife_block"] >>

SuspectRows ==
  << [id |-> "info_alibi", name |-> "Alibi", description |-> "desc_alibi",
      trigger_object_id |-> "desk"] >>

ImmutableRow ==
  [case_id |-> CaseId, full_story |-> "story",
   evidence_truth |-> EvidenceRows, suspect_truth |-> SuspectRows,
   correct_accusation |-> [suspectId |-> "sus_butler", evidenceId |-> "clue_knife"],
   location_data |-> <<LocStudy, LocKitchen>>]

InitialRow ==
  [case_id |-> CaseId, synopsis |-> "synopsis",
   victims |-> << [name |-> "Victim"] >>,
   suspects |-> << [name |-> "Butler", suspect_trait |-> "calm",
                    physical_description |-> "tall", relation_to_victim |-> "employee"] >>,
   initial_location_id |-> "study"]

TruthIds == Ids(EvidenceRows) \cup Ids(SuspectRows)

\* --------------------------------------------------- case data accessor
\* `row` is the case_initial_data row, `shells` the case_immutable_records row
\* of the same case, of which only the ids and names of evidence_truth are kept.
getCaseInitialData(row, shells) ==
  [caseId |-> row.case_id, synopsis |-> row.synopsis, victims |-> row.victims,
   suspects |-> row.suspects, initialLocationId |-> row.initial_location_id,
   evidence |-> [i \in 1..Len(shells.evidence_truth) |->
                   [id |-> shells.evidence_truth[i].id,
                    name |-> shells.evidence_truth[i].name]]]

getCaseImmutableRecords(row) ==
  [caseId |-> row.case_id, fullStory |-> row.full_story,
   evidenceTruth |-> row.evidence_truth, suspectTruth |-> row.suspect_truth,
   correctAccusation |-> row.correct_accusation, locationData |-> row.location_data]

\* ------------------------------------------------------- model reply texts
TagStart == "[ACTION_ID_START]"
TagEnd   == "[ACTION_ID_END]"
TagIds   == "[NEW_EVIDENCE_IDS]"
Comma    == ","
NL       == "NL"

\* tokens that match [A-Za-z0-9_.-]+
IsIdToken(t) == t \notin {TagStart, TagEnd, TagIds, Comma, NL}

\* String.prototype.toLowerCase on the tokens the replies use
ToLower(t) == IF t \in {"NULL", "Null"} THEN "null" ELSE t

FirstIndex(m, t) == IF \E i \in 1..Len(m) : m[i] = t
                    THEN Min({i \in 1..Len(m) : m[i] = t}) ELSE 0

extractHiddenActionId(message) ==
  LET hits == {i \in 1..Len(message) :
                 /\ i + 2 <= Len(message)
                 /\ message[i] = TagStart
                 /\ IsIdToken(message[i + 1])
                 /\ message[i + 2] = TagEnd}
  IN IF hits = {} THEN Null
     ELSE LET id == message[Min(hits) + 1]
          IN IF ToLower(id) = "null" THEN Null ELSE id

\* raw.split(/[,\n\r]+/) then trim and filter(Boolean): the non-empty runs
\* of tokens between commas
RECURSIVE SplitParts(_, _)
SplitParts(toks, cur) ==
  IF toks = <<>> THEN (IF cur = <<>> THEN <<>> ELSE <<cur>>)
  ELSE IF Head(toks) = Comma
       THEN (IF cur = <<>> THEN <<>> ELSE <<cur>>) \o SplitParts(Tail(toks), <<>>)
       ELSE SplitParts(Tail(toks), Append(cur, Head(toks)))

\* a part as the string the code compares with ids: a part of one token is
\* that token, a part of several tokens is some string that is no record id
PartString(part) == IF Len(part) = 1 THEN part[1] ELSE "<junk>"

\* Array.from(new Set(parts))
RECURSIVE Dedupe(_)
Dedupe(s) ==
  IF s = <<>> THEN <<>>
  ELSE LET rest == Dedupe(SubSeq(s, 1, Len(s) - 1))
       IN IF s[Len(s)] \in Range(rest) THEN rest ELSE Append(rest, s[Len(s)])

extractEvidenceIds(message) ==
  LET i == FirstIndex(message, TagIds)
  IN IF i = 0 THEN <<>>
     ELSE LET after == SubSeq(message, i + 1, Len(message))
              k     == FirstIndex(after, NL)
              line  == IF k = 0 THEN after ELSE SubSeq(after, 1, k - 1)
              parts == SplitParts(line, <<>>)
          IN Dedupe([j \in 1..Len(parts) |-> PartString(parts[j])])

\* .replace(/\[ACTION_ID_START\][\s\S]*?\[ACTION_ID_END\]/gi, '')
RECURSIVE StripActionTags(_)
StripActionTags(m) ==
  LET i == FirstIndex(m, TagStart)
  IN IF i = 0 THEN m
     ELSE LET after == SubSeq(m, i + 1, Len(m))
              j     == FirstIndex(after, TagEnd)
          IN IF j = 0 THEN m
             ELSE SubSeq(m, 1, i - 1) \o StripActionTags(SubSeq(after, j + 1, Len(after)))

\* .replace(/\[NEW_EVIDENCE_IDS\][^\n\r]*/gi, '')
RECURSIVE StripIdTags(_)
StripIdTags(m) ==
  LET i == FirstIndex(m, TagIds)
  IN IF i = 0 THEN m
     ELSE LET after == SubSeq(m, i + 1, Len(m))
              k     == FirstIndex(after, NL)
          IN IF k = 0 THEN SubSeq(m, 1, i - 1)
             ELSE SubSeq(m, 1, i - 1) \o StripIdTags(SubSeq(after, k, Len(after)))

\* String.prototype.trim
RECURSIVE Trim(_)
Trim(m) ==
  IF m = <<>> THEN m
  ELSE IF Head(m) = NL THEN Trim(Tail(m))
  ELSE IF m[Len(m)] = NL THEN Trim(SubSeq(m, 1, Len(m) - 1))
  ELSE m

cleanedText(rawAiText) == Trim(StripIdTags(StripActionTags(rawAiText)))

\* content: cleanedText || rawAiText
aiResponse(rawAiText) ==
  [role |-> "assistant",
   content |-> IF cleanedText(rawAiText) # <<>> THEN cleanedText(rawAiText) ELSE rawAiText]

\* ------------------------------------------------ state transition engine
\* the two for-loops of the inspect branch: every triggered record whose id
\* is not yet in the log is pushed to the log and to the newly revealed list
RECURSIVE PushNew(_, _, _)
PushNew(log, news, items) ==
  IF items = <<>> THEN [log |-> log, news |-> news]
  ELSE IF Head(items).id \in Ids(log)
       THEN PushNew(log, news, Tail(items))
       ELSE PushNew(Append(log, Head(items)), Append(news, Head(items)), Tail(items))

\* the filter without the trigger_object_id test
Triggered_all(records, target_id) == records

Triggered(records, target_id) ==
  SelectSeq(records, LAMBDA e : e.trigger_object_id = target_id)

FindLocation(locations, id) ==
  SelectSeq(locations, LAMBDA loc : loc.id = id)

\* the inspect branch without the "not already in the log" test
inspectBranch_nodedupe(s0, target_id, caseData) ==
  LET ev == Triggered(ArrayOrEmpty(caseData, "evidence_truth"), target_id)
      su == Triggered(ArrayOrEmpty(caseData, "suspect_truth"), target_id)
  IN [newState |-> With(With(s0, "evidence_log", s0.evidence_log \o ev),
                        "suspect_log", s0.suspect_log \o su),
      newClues |-> ev, newSuspectInfo |-> su]

\* lines 2080-2106, the inspect branch
inspectBranch(s0, target_id, caseData) ==
  LET ev == PushNew(s0.evidence_log, <<>>,
                    Triggered(ArrayOrEmpty(caseData, "evidence_truth"), target_id))
      su == PushNew(s0.suspect_log, <<>>,
                    Triggered(ArrayOrEmpty(caseData, "suspect_truth"), target_id))
  IN [newState |-> With(With(s0, "evidence_log", ev.log), "suspect_log", su.log),
      newClues |-> ev.news, newSuspectInfo |-> su.news]

\* the move branch without the knownLocations test
moveBranch_unchecked(s0, target_id, caseData) ==
  [newState |-> With(s0, "currentLocation", target_id),
   newClues |-> <<>>, newSuspectInfo |-> <<>>]

\* lines 2112-2125, the move branch
moveBranch(s0, target_id, caseData) ==
  IF target_id \in Range(s0.knownLocations)
  THEN LET found == FindLocation(ArrayOrEmpty(caseData, "locationData"), target_id)
       IN [newState |-> With(s0, "currentLocation", target_id),
           newClues |-> IF found # <<>> /\ Has(found[1], "scene_description")
                        THEN << [type |-> "location_change",
                                 description |-> found[1].scene_description] >>
                        ELSE <<>>,
           newSuspectInfo |-> <<>>]
  ELSE [newState |-> s0, newClues |-> <<>>, newSuspectInfo |-> <<>>]

updateGameState(intent, currentGameState, caseData) ==
  LET s0 == With(With(With(currentGameState,
                   "evidence_log", ArrayOrEmpty(currentGameState, "evidence_log")),
                   "suspect_log", ArrayOrEmpty(currentGameState, "suspect_log")),
                   "knownLocations", ArrayOrEmpty(currentGameState, "knownLocations"))
  IN IF intent.action = "inspect" /\ intent.target_id # Null
     THEN inspectBranch(s0, intent.target_id, caseData)
     ELSE IF intent.action = "move" /\ intent.target_id # Null
     THEN moveBranch(s0, intent.target_id, caseData)
     ELSE [newState |-> s0, newClues |-> <<>>, newSuspectInfo |-> <<>>]

\* The object the caller passed, as it is once updateGameState has returned.
\* newState is a shallow copy ({ ...currentGameState }): a log that is an
\* array in the caller's object is the same array in newState, so the pushes
\* of the inspect branch are pushes onto the caller's arrays. A log that is
\* missing is created on newState alone.
argumentAfter(currentGameState, newState) ==
  [k \in DOMAIN currentGameState |->
     IF k \in {"evidence_log", "suspect_log"} THEN newState[k] ELSE currentGameState[k]]

\* ------------------------------------------------------ context assembler
RenderItem(item) ==
  IF Has(item, "type") /\ item.type = "location_change"
  THEN [section |-> "LOCATION CHANGE", text |-> item.description]
  ELSE [section |-> "Item",
        name |-> IF Has(item, "name") THEN item.name ELSE "Unknown",
        text |-> IF Has(item, "description") THEN item.description
                 ELSE "No description available"]

generateDynamicGameStateSummary(gameState, newItems, caseData, initialData) ==
  LET currentLocation == IF Has(gameState, "currentLocation")
                         THEN gameState.currentLocation ELSE "undefined"
      found == FindLocation(ArrayOrEmpty(caseData, "locationData"), currentLocation)
      evidence_log == ArrayOrEmpty(gameState, "evidence_log")
  IN [ai_core_summary |-> IF Has(gameState, "ai_core_summary")
                          THEN gameState.ai_core_summary
                          ELSE "The investigation is just beginning.",
      synopsis |-> initialData.synopsis,
      victims  |-> [i \in 1..Len(initialData.victims) |-> initialData.victims[i].name],
      suspects |-> [i \in 1..Len(initialData.suspects) |->
                      <<initialData.suspects[i].name, initialData.suspects[i].suspect_trait,
                        initialData.suspects[i].physical_description,
                        initialData.suspects[i].relation_to_victim>>],
      location |-> IF found # <<>> THEN found[1].name ELSE currentLocation,
      interactables |-> IF found # <<>>
                        THEN [i \in 1..Len(found[1].interactables) |->
                                found[1].interactables[i].name]
                        ELSE <<>>,
      evidenceLog |-> [i \in 1..Len(evidence_log) |->
                         <<evidence_log[i].name, evidence_log[i].description>>],
      newlyDiscovered |-> [i \in 1..Len(newItems) |-> RenderItem(newItems[i])]]

StartGame == <<"start_game">>
OpeningInstruction == <<"opening_instruction">>

\* history.slice(0, history.length - 1).slice(-10), mapped to {role, parts}
recentMessages(history) ==
  LET prior == IF history = <<>> THEN <<>> ELSE SubSeq(history, 1, Len(history) - 1)
      last  == LastN(prior, 10)
  IN [i \in 1..Len(last) |->
        [role |-> IF last[i].role = "assistant" THEN "model" ELSE "user",
         text |-> last[i].content]]

\* a request body that carries the immutable records along
aiRequestPayload_withRecords(newState, newItems, message, immutableRecords, initialData) ==
  [contents |-> Append(recentMessages(ArrayOrEmpty(newState, "chat_history")),
                       [role |-> "user",
                        text |-> IF message = StartGame THEN OpeningInstruction ELSE message]),
   systemInstruction |->
     <<"DETECTIVE_SYSTEM_INSTRUCTION",
       generateDynamicGameStateSummary(newState, newItems, immutableRecords, initialData)>>,
   caseData |-> immutableRecords]

\* the request body of the main model call
aiRequestPayload(newState, newItems, message, immutableRecords, initialData) ==
  [contents |-> Append(recentMessages(ArrayOrEmpty(newState, "chat_history")),
                       [role |-> "user",
                        text |-> IF message = StartGame THEN OpeningInstruction ELSE message]),
   systemInstruction |->
     <<"DETECTIVE_SYSTEM_INSTRUCTION",
       generateDynamicGameStateSummary(newState, newItems, immutableRecords, initialData)>>]

\* --------------------------------------------------------- turn orchestrator
SummaryPeriod == 10

\* lines 2509-2561: push the user message, rewrite ai_core_summary when the
\* history length is a positive multiple of 10 and the summarization call
\* returned a text (`summary` is that text, Null when the call failed or
\* returned none), then the defensive array initialisation
\* a preparation that drops the summary when the summarization call fails
prepareState_summaryDropped(gameState, message, summary) ==
  LET h0 == ArrayOrEmpty(gameState, "chat_history")
      h1 == IF message # StartGame THEN Append(h0, [role |-> "user", content |-> message])
            ELSE h0
      g1 == With(gameState, "chat_history", h1)
      g2 == IF Len(h1) > 0 /\ Len(h1) % SummaryPeriod = 0
            THEN With(g1, "ai_core_summary", summary) ELSE g1
  IN With(With(With(g2,
        "evidence_log", ArrayOrEmpty(g2, "evidence_log")),
        "suspect_log", ArrayOrEmpty(g2, "suspect_log")),
        "knownLocations", ArrayOrEmpty(g2, "knownLocations"))

prepareState(gameState, message, summary) ==
  LET h0 == ArrayOrEmpty(gameState, "chat_history")
      h1 == IF message # StartGame THEN Append(h0, [role |-> "user", content |-> message])
            ELSE h0
      g1 == With(gameState, "chat_history", h1)
      g2 == IF Len(h1) > 0 /\ Len(h1) % SummaryPeriod = 0 /\ summary # Null
            THEN With(g1, "ai_core_summary", summary) ELSE g1
  IN With(With(With(g2,
        "evidence_log", ArrayOrEmpty(g2, "evidence_log")),
        "suspect_log", ArrayOrEmpty(g2, "suspect_log")),
        "knownLocations", ArrayOrEmpty(g2, "knownLocations"))

summaryDue(gameState, message) ==
  LET n == Len(ArrayOrEmpty(gameState, "chat_history")) + (IF message # StartGame THEN 1 ELSE 0)
  IN n > 0 /\ n % SummaryPeriod = 0

looksLikeSuspect(c) ==
  \/ Has(c, "suspect_trait") \/ Has(c, "physical_description")
  \/ Has(c, "relation_to_victim") \/ Has(c, "frontend_role")
  \/ (Has(c, "role") /\ c.role = "suspect")
  \/ (Has(c, "type") /\ c.type = "suspect")

\* lines 2675-2693: suspect-like records among newClues go to suspect_log
RECURSIVE relocateSuspects(_, _)
relocateSuspects(acc, clues) ==
  IF clues = <<>> THEN acc
  ELSE LET c == Head(clues)
       IN IF looksLikeSuspect(c)
          THEN IF c.id \in Ids(acc.suspect_log)
               THEN relocateSuspects(acc, Tail(clues))
               ELSE relocateSuspects(
                      [acc EXCEPT !.suspect_log = Append(@, c),
                                  !.newSuspectInfo = Append(@, c)], Tail(clues))
          ELSE relocateSuspects([acc EXCEPT !.newClues = Append(@, c)], Tail(clues))

\* the filter that lets every listed id through
validModelIds_unchecked(modelSuppliedIds, evidenceTruth, suspectTruth) == modelSuppliedIds

\* lines 2704-2710: the ids the model listed that are ids of truth records
validModelIds(modelSuppliedIds, evidenceTruth, suspectTruth) ==
  SelectSeq(modelSuppliedIds, LAMBDA mid : mid \in Ids(evidenceTruth) \cup Ids(suspectTruth))

\* an append that does not look at the ids already logged
RECURSIVE appendModelIds_unseen(_, _, _, _)
appendModelIds_unseen(acc, mids, evidenceTruth, suspectTruth) ==
  IF mids = <<>> THEN acc
  ELSE LET idStr == Head(mids)
           ev == SelectSeq(evidenceTruth, LAMBDA e : e.id = idStr)
           su == SelectSeq(suspectTruth, LAMBDA e : e.id = idStr)
           next ==
             IF ev # <<>>
             THEN [acc EXCEPT !.evidence_log = Append(@, ev[1]),
                              !.newIds = Append(@, idStr)]
             ELSE IF su # <<>>
             THEN [acc EXCEPT !.suspect_log = Append(@, su[1]),
                              !.newIds = Append(@, idStr)]
             ELSE acc
       IN appendModelIds_unseen(next, Tail(mids), evidenceTruth, suspectTruth)

\* lines 2719-2760: append each validated id's record to the log it belongs to
RECURSIVE appendModelIds(_, _, _, _)
appendModelIds(acc, mids, evidenceTruth, suspectTruth) ==
  IF mids = <<>> THEN acc
  ELSE LET idStr == Head(mids)
           ev == SelectSeq(evidenceTruth, LAMBDA e : e.id = idStr)
           su == SelectSeq(suspectTruth, LAMBDA e : e.id = idStr)
           next ==
             IF ev # <<>> /\ idStr \notin acc.existingEvidenceIds
             THEN [acc EXCEPT !.evidence_log = Append(@, ev[1]),
                              !.existingEvidenceIds = @ \cup {idStr},
                              !.newIds = Append(@, idStr)]
             ELSE IF su # <<>> /\ idStr \notin acc.existingSuspectIds
             THEN [acc EXCEPT !.suspect_log = Append(@, su[1]),
                              !.existingSuspectIds = @ \cup {idStr},
                              !.newIds = Append(@, idStr)]
             ELSE IF ev = <<>> /\ su = <<>> /\ idStr \notin acc.existingEvidenceIds
             THEN [acc EXCEPT !.evidence_log = Append(@, [id |-> idStr]),
                              !.existingEvidenceIds = @ \cup {idStr},
                              !.newIds = Append(@, idStr)]
             ELSE acc
       IN appendModelIds(next, Tail(mids), evidenceTruth, suspectTruth)

HasId(c) == Has(c, "id")
IdsOf(items) == LET withId == SelectSeq(items, HasId)
                IN [i \in 1..Len(withId) |-> withId[i].id]

\* lines 2640-2809: everything the handler computes from the model's reply
applyReply(newState0, rawAiText, immutableRecords) ==
  LET targetId == extractHiddenActionId(rawAiText)
      additional == updateGameState([action |-> "inspect", target_id |-> targetId],
                                    newState0, immutableRecords)
      hidden == targetId # Null
      state1 == IF hidden THEN additional.newState ELSE newState0
      clues1 == IF hidden THEN additional.newClues ELSE <<>>
      susp1  == IF hidden THEN additional.newSuspectInfo ELSE <<>>
      ids1   == IdsOf(clues1) \o IdsOf(susp1)
      moved  == relocateSuspects([suspect_log |-> state1.suspect_log,
                                  newSuspectInfo |-> susp1, newClues |-> <<>>], clues1)
      modelSuppliedIds == extractEvidenceIds(rawAiText)
      evidenceTruth == ArrayOrEmpty(immutableRecords, "evidence_truth")
      suspectTruth  == ArrayOrEmpty(immutableRecords, "suspect_truth")
      valid == validModelIds(modelSuppliedIds, evidenceTruth, suspectTruth)
      invalid == SelectSeq(modelSuppliedIds, LAMBDA mid : mid \notin Range(valid))
      merged == appendModelIds(
                  [evidence_log |-> state1.evidence_log,
                   suspect_log |-> moved.suspect_log,
                   existingEvidenceIds |-> Ids(state1.evidence_log) \cup Ids(SelectSeq(moved.newClues, HasId)),
                   existingSuspectIds |-> Ids(moved.suspect_log) \cup Ids(SelectSeq(moved.newSuspectInfo, HasId)),
                   newIds |-> ids1],
                  valid, evidenceTruth, suspectTruth)
      newItems == IF valid # <<>> THEN moved.newClues \o moved.newSuspectInfo
                  ELSE IF hidden THEN clues1 \o susp1 ELSE <<>>
      reply == aiResponse(rawAiText)
      state2 == With(With(With(state1,
                  "evidence_log", merged.evidence_log),
                  "suspect_log", merged.suspect_log),
                  "chat_history", Append(state1.chat_history, reply))
  IN [newState |-> state2,
      newItems |-> newItems,
      response |-> reply,
      newlyAddedIds |-> Dedupe(merged.newIds),
      skippedIds |-> Dedupe(invalid)]

\* the progress with the oldest five messages as its short-term memory
progressToSave_oldestFive(newState) ==
  Without(
    With(With(newState,
      "ai_core_summary", IF Has(newState, "ai_core_summary") THEN newState.ai_core_summary ELSE Null),
      "last_five_messages", SubSeq(newState.chat_history, 1, Min({5, Len(newState.chat_history)}))),
    {"session_id", "user_id", "case_id", "created_at", "updated_at"})

\* lines 2782-2795
progressToSave(newState) ==
  Without(
    With(With(newState,
      "ai_core_summary", IF Has(newState, "ai_core_summary") THEN newState.ai_core_summary ELSE Null),
      "last_five_messages", LastN(newState.chat_history, 5)),
    {"session_id", "user_id", "case_id", "created_at", "updated_at"})

InvalidStructureText == <<"lost_my_train_of_thought">>

\* ------------------------------------------------------------ session store
EmptyObject == [k \in {} |-> TRUE]

\* rows of a table: a function from the session ids that have a row
Insert(table, sid, row) == [x \in (DOMAIN table) \cup {sid} |-> IF x = sid THEN row ELSE table[x]]

\* .update(data).eq('session_id', sid): sets the named columns of the row, if any
Update(table, sid, data) ==
  [x \in DOMAIN table |-> IF x = sid THEN Spread(table[x], data) ELSE table[x]]

\* createSession: the two rows it inserts
initialStateRow(sessionId, caseId, now) ==
  [session_id |-> sessionId, user_id |-> Null, case_id |-> caseId, updated_at |-> now]

initialProgress(sessionId, initialLocation) ==
  [session_id |-> sessionId, evidence_log |-> <<>>, suspect_log |-> <<>>,
   chat_history |-> <<>>, last_five_messages |-> <<>>,
   ai_core_summary |-> "The investigation has just begun.",
   current_map_state |-> << With(initialLocation, "is_current", TRUE) >>]

\* the read without the derivation of currentLocation
readSessionProgress_underived(state_table, progress_table, sessionId) ==
  IF sessionId \notin DOMAIN state_table \/ sessionId \notin DOMAIN progress_table
  THEN [ok |-> FALSE, value |-> EmptyObject]
  ELSE [ok |-> TRUE, value |-> Spread(state_table[sessionId], progress_table[sessionId])]

\* readSessionProgress: .single() reports an error when the row is missing,
\* and the helper then throws
readSessionProgress(state_table, progress_table, sessionId) ==
  IF sessionId \notin DOMAIN state_table \/ sessionId \notin DOMAIN progress_table
  THEN [ok |-> FALSE, value |-> EmptyObject]
  ELSE LET progressData == progress_table[sessionId]
           current == SelectSeq(ArrayOrEmpty(progressData, "current_map_state"),
                                LAMBDA loc : Has(loc, "is_current") /\ loc.is_current)
           derived == IF current # <<>>
                      THEN With(progressData, "currentLocation", current[1].id)
                      ELSE progressData
       IN [ok |-> TRUE, value |-> Spread(state_table[sessionId], derived)]

\* a save that writes the row whether or not the session has one
saveSessionProgress_upsert(progress_table, sessionId, progressData) ==
  Insert(progress_table, sessionId,
         Without(progressData, {"currentLocation", "knownLocations"}))

\* saveSessionProgress, first store operation: the session_progress update
saveSessionProgress(progress_table, sessionId, progressData) ==
  Update(progress_table, sessionId, Without(progressData, {"currentLocation", "knownLocations"}))

\* Timestamps are kept as ranks: the code only ever orders rows by
\* updated_at, so the rows carry 1..n in the order of their timestamps.
Now(state_table) == Cardinality(DOMAIN state_table) + 1

Ranked(state_table) ==
  [x \in DOMAIN state_table |->
     With(state_table[x], "updated_at",
          Cardinality({y \in DOMAIN state_table :
                         state_table[y].updated_at <= state_table[x].updated_at}))]

\* saveSessionProgress, second store operation: touch session_state.updated_at
touchSessionState(state_table, sessionId) ==
  Ranked(Update(state_table, sessionId, [updated_at |-> Now(state_table)]))

\* fetchLatestSession: order by updated_at descending, limit 1; 0 when the
\* case has no session
fetchLatestSession(state_table, caseId) ==
  LET of == {x \in DOMAIN state_table : state_table[x].case_id = caseId}
  IN IF of = {} THEN {0}
     ELSE {x \in of : \A y \in of : state_table[y].updated_at <= state_table[x].updated_at}

\* ------------------------------------------------------------------- state
VARIABLES
  session_state,     \* table session_state
  session_progress,  \* table session_progress
  issued,            \* uuids handed out by uuidv4
  turns,             \* chat requests started
  chat,              \* the chat requests in flight, by slot
  sess,              \* the POST /api/sessions requests in flight, by slot
  eng,               \* the engine specification's call record
  game_sessions,     \* table game_sessions (intent-based revision)
  lastRequestTimestamps,  \* the process-local map sessionId -> time of the last admitted request
  clock,             \* Date.now()
  ichat,             \* the intent-based revision's chat requests in flight, by slot
  del                \* the DELETE /api/sessions/:sessionId request in flight

vars == <<session_state, session_progress, issued, turns, chat, sess, eng,
          game_sessions, lastRequestTimestamps, clock, ichat, del>>

\* the state of the tag-based revision and of the engine calls
tagVars == <<session_state, session_progress, issued, turns, chat, sess, eng>>
\* the state of the intent-based revision
intentVars == <<game_sessions, lastRequestTimestamps, clock, ichat>>

\* the intent-based revision not deployed: no table, no map, no request
IntentOff ==
  /\ game_sessions = EmptyObject
  /\ lastRequestTimestamps = EmptyObject
  /\ clock = 0
  /\ ichat = EmptyObject

\* no DELETE request yet
IdleDelete == [pc |-> "idle", sessionId |-> <<>>, status |-> 0, started |-> 0]

\* ------------------------------------------------------------------ inputs
UserMessage == <<"check", "the", "desk">>
Messages == {UserMessage, StartGame}

\* The texts the main model call yields: a reply that carries both tags, and
\* (InvalidStructureText, the text the handler substitutes for an answer
\* without text) a text that carries none.
ReplyDesk   == <<"looking", TagStart, "desk", TagEnd, TagIds, "clue_letter", Comma, "bogus_id">>
ModelReplies == {ReplyDesk}
ReplyTexts == ModelReplies \cup {InvalidStructureText}

\* the session ids a chat request may name: those handed out so far and one
\* that names no session
SessionIdSpace(n) == 1..(IF n < Cardinality(SessSlots) THEN n + 1 ELSE n)

IdleChat ==
  [pc |-> "idle", sessionId |-> 0, message |-> <<>>, newState |-> EmptyObject,
   payload |-> EmptyObject, raw |-> <<>>, toSave |-> EmptyObject,
   status |-> 0, details |-> Null, newlyAddedIds |-> <<>>, skippedIds |-> <<>>]

\* errorPayload of the handler's catch: error.response?.data, the body of the
\* upstream service's error answer, or { message: error.message }
UpstreamErrorBody == "error.response.data"
ErrorMessage(text) == [message |-> text]

IdleSess ==
  [pc |-> "idle", caseId |-> CaseId, sessionId |-> 0, status |-> 0, isNew |-> FALSE,
   gameState |-> EmptyObject]

NoCall == [kind |-> "none"]

Init ==
  /\ session_state = EmptyObject
  /\ session_progress = EmptyObject
  /\ issued = 0
  /\ turns = 0
  /\ chat = [c \in ChatSlots |-> IdleChat]
  /\ sess = [h \in SessSlots |-> IdleSess]
  /\ eng = NoCall
  /\ IntentOff
  /\ del = IdleDelete

\* ------------------------------------------------- POST /api/sessions
\* step 1: fetchLatestSession
SessFetchLatest(h) ==
  /\ sess[h].pc = "idle"
  /\ \A g \in SessSlots : g < h => sess[g].pc # "idle"   \* slots are taken in order
  /\ \E latest \in fetchLatestSession(session_state, CaseId) :
       sess' = [sess EXCEPT ![h] =
                  IF latest # 0
                  THEN [@ EXCEPT !.pc = "resume", !.sessionId = latest]
                  ELSE [@ EXCEPT !.pc = "create"]]
  /\ UNCHANGED <<session_state, session_progress, issued, turns, chat, eng>>
  /\ UNCHANGED intentVars
  /\ UNCHANGED del

\* an existing session: read its progress and answer isNew = false
SessResume(h) ==
  /\ sess[h].pc = "resume"
  /\ LET read == readSessionProgress(session_state, session_progress, sess[h].sessionId)
     IN sess' = [sess EXCEPT ![h] =
                   IF read.ok
                   THEN [@ EXCEPT !.pc = "done", !.status = 200, !.isNew = FALSE,
                                  !.gameState = read.value]
                   ELSE [@ EXCEPT !.pc = "done", !.status = 500]]
  /\ UNCHANGED <<session_state, session_progress, issued, turns, chat, eng>>
  /\ UNCHANGED intentVars
  /\ UNCHANGED del

\* createSession up to its first insert: a fresh uuid, the start location
\* looked up in locationData, the session_state row
SessInsertState(h) ==
  /\ sess[h].pc = "create"
  /\ LET initialData == getCaseInitialData(InitialRow, ImmutableRow)
         immutableRecords == getCaseImmutableRecords(ImmutableRow)
         found == FindLocation(immutableRecords.locationData, initialData.initialLocationId)
     IN IF found = <<>>
        THEN /\ sess' = [sess EXCEPT ![h] = [@ EXCEPT !.pc = "done", !.status = 500]]
             /\ UNCHANGED <<session_state, issued>>
        ELSE /\ issued' = issued + 1
             /\ session_state' = Ranked(Insert(session_state, issued + 1,
                                        initialStateRow(issued + 1, CaseId, Now(session_state))))
             /\ sess' = [sess EXCEPT ![h] = [@ EXCEPT !.pc = "progress", !.sessionId = issued + 1]]
  /\ UNCHANGED <<session_progress, turns, chat, eng>>
  /\ UNCHANGED intentVars
  /\ UNCHANGED del

\* createSession's second insert and the 201 answer
SessInsertProgress(h) ==
  /\ sess[h].pc = "progress"
  /\ LET immutableRecords == getCaseImmutableRecords(ImmutableRow)
         initialData == getCaseInitialData(InitialRow, ImmutableRow)
         found == FindLocation(immutableRecords.locationData, initialData.initialLocationId)
         row == initialProgress(sess[h].sessionId, found[1])
     IN /\ session_progress' = Insert(session_progress, sess[h].sessionId, row)
        /\ sess' = [sess EXCEPT ![h] = [@ EXCEPT !.pc = "done", !.status = 201,
                                                !.isNew = TRUE, !.gameState = row]]
  /\ UNCHANGED <<session_state, issued, turns, chat, eng>>
  /\ UNCHANGED intentVars
  /\ UNCHANGED del

\* ------------------------------------------------------- POST /api/chat
\* step 1 to 3: read the session and the case, push the user message, run
\* the summarization call when due, build the request of the main call
ChatFetch(c) ==
  /\ chat[c].pc \in {"idle", "done"}
  /\ \A d \in ChatSlots : d < c => chat[d].pc \notin {"idle", "done"}   \* lowest free slot
  /\ turns < MaxTurns
  /\ turns' = turns + 1
  /\ \E sid \in SessionIdSpace(issued), message \in Messages :
       LET read == readSessionProgress(session_state, session_progress, sid)
           immutableRecords == getCaseImmutableRecords(ImmutableRow)
           initialData == getCaseInitialData(InitialRow, ImmutableRow)
       IN IF ~read.ok
          THEN chat' = [chat EXCEPT ![c] =
                          [IdleChat EXCEPT !.pc = "done", !.sessionId = sid,
                                           !.message = message, !.status = 500,
                                           !.details = ErrorMessage("Failed to read session state.")]]
          ELSE \E summary \in (IF summaryDue(read.value, message)
                               THEN {Null, "summary_rewritten"} ELSE {Null}) :
                 LET newState == prepareState(read.value, message, summary)
                 IN chat' = [chat EXCEPT ![c] =
                      [IdleChat EXCEPT !.pc = "called", !.sessionId = sid,
                         !.message = message, !.newState = newState,
                         !.payload = aiRequestPayload(newState, <<>>, message,
                                                      immutableRecords, initialData)]]
  /\ UNCHANGED <<session_state, session_progress, issued, sess, eng>>
  /\ UNCHANGED intentVars
  /\ UNCHANGED del

\* step 4, the main model call fails: the handler's catch answers 500
ChatModelFails(c) ==
  /\ chat[c].pc = "called"
  /\ chat' = [chat EXCEPT ![c] = [@ EXCEPT !.pc = "done", !.status = 500,
                                            !.details = UpstreamErrorBody,
                                            !.newState = EmptyObject, !.payload = EmptyObject]]
  /\ UNCHANGED <<session_state, session_progress, issued, turns, sess, eng>>
  /\ UNCHANGED intentVars
  /\ UNCHANGED del

\* step 4 and the merge: the call returns `raw` (the fixed fallback text when
\* the answer has no text), the handler parses and merges it
ChatModelReplies(c) ==
  /\ chat[c].pc = "called"
  /\ \E raw \in ReplyTexts :
       LET out == applyReply(chat[c].newState, raw, getCaseImmutableRecords(ImmutableRow))
       IN chat' = [chat EXCEPT ![c] =
                     [@ EXCEPT !.pc = "saving", !.raw = raw, !.newState = EmptyObject,
                               !.payload = EmptyObject,
                               !.toSave = progressToSave(out.newState),
                               !.newlyAddedIds = out.newlyAddedIds,
                               !.skippedIds = out.skippedIds]]
  /\ UNCHANGED <<session_state, session_progress, issued, turns, sess, eng>>
  /\ UNCHANGED intentVars
  /\ UNCHANGED del

\* step 5, saveSessionProgress: the session_progress update; when the store
\* reports an error the helper throws and the handler's catch answers 500
ChatSaveProgress(c) ==
  /\ chat[c].pc = "saving"
  /\ \E progressError \in BOOLEAN :
       IF progressError
       THEN /\ UNCHANGED session_progress
            /\ chat' = [chat EXCEPT ![c] =
                 [@ EXCEPT !.pc = "done", !.status = 500,
                           !.details = ErrorMessage("Failed to save session progress."),
                           !.raw = <<>>, !.toSave = EmptyObject,
                           !.newlyAddedIds = <<>>, !.skippedIds = <<>>]]
       ELSE /\ session_progress' = saveSessionProgress(session_progress, chat[c].sessionId, chat[c].toSave)
            /\ chat' = [chat EXCEPT ![c] = [@ EXCEPT !.pc = "touching"]]
  /\ UNCHANGED <<session_state, issued, turns, sess, eng>>
  /\ UNCHANGED intentVars
  /\ UNCHANGED del

\* step 5, saveSessionProgress: the updated_at touch (an error of the store
\* is logged and nothing else), then the 200 answer
ChatTouchState(c) ==
  /\ chat[c].pc = "touching"
  /\ \E stateError \in BOOLEAN :
       session_state' = IF stateError THEN session_state
                        ELSE touchSessionState(session_state, chat[c].sessionId)
  /\ chat' = [chat EXCEPT ![c] = [@ EXCEPT !.pc = "done", !.status = 200,
                                            !.raw = <<>>, !.toSave = EmptyObject]]
  /\ UNCHANGED <<session_progress, issued, turns, sess, eng>>
  /\ UNCHANGED intentVars
  /\ UNCHANGED del

Next ==
  \/ \E h \in SessSlots : SessFetchLatest(h)
  \/ \E h \in SessSlots : SessResume(h)
  \/ \E h \in SessSlots : SessInsertState(h)
  \/ \E h \in SessSlots : SessInsertProgress(h)
  \/ \E c \in ChatSlots : ChatFetch(c)
  \/ \E c \in ChatSlots : ChatModelFails(c)
  \/ \E c \in ChatSlots : ChatModelReplies(c)
  \/ \E c \in ChatSlots : ChatSaveProgress(c)
  \/ \E c \in ChatSlots : ChatTouchState(c)

Spec == Init /\ [][Next]_vars

\* ------------------------------------------------ engine specification
\* One session, taken through updateGameState, saveSessionProgress and
\* readSessionProgress call by call.  The caseData argument ranges over the
\* object getCaseImmutableRecords returns and the object whose truth arrays
\* sit under the names updateGameState reads (evidence_truth, suspect_truth).
RecordsAsReturned == getCaseImmutableRecords(ImmutableRow)
RecordsAsRead ==
  With(With(RecordsAsReturned, "evidence_truth", ImmutableRow.evidence_truth),
       "suspect_truth", ImmutableRow.suspect_truth)
CaseDataInputs == {RecordsAsReturned, RecordsAsRead}

KnownLocationInputs == {<<"study">>, <<"study", "kitchen">>}

IntentInputs ==
  [action : {"inspect", "move", "talk", "chat"},
   target_id : {"desk", "vase", "kitchen", "cellar", Null}]

EngineSession == 1
EngineStateTable == Insert(EmptyObject, EngineSession, initialStateRow(EngineSession, CaseId, 1))
EngineProgressTable == Insert(EmptyObject, EngineSession, initialProgress(EngineSession, LocStudy))
EngineFreshState ==
  readSessionProgress(EngineStateTable, EngineProgressTable, EngineSession).value

EngineCall(kind, caseData, intent, before, out, steps) ==
  [kind |-> kind, caseData |-> caseData, intent |-> intent, before |-> before,
   after |-> out.newState, newClues |-> out.newClues,
   newSuspectInfo |-> out.newSuspectInfo, steps |-> steps]

NoIntent == [action |-> "chat", target_id |-> Null]
NothingNew(state) == [newState |-> state, newClues |-> <<>>, newSuspectInfo |-> <<>>]

InitEngine ==
  /\ session_state = EngineStateTable
  /\ session_progress = EngineProgressTable
  /\ issued = 1
  /\ turns = 0
  /\ chat = [c \in ChatSlots |-> IdleChat]
  /\ sess = [h \in SessSlots |-> IdleSess]
  /\ IntentOff
  /\ del = IdleDelete
  /\ \E caseData \in CaseDataInputs, known \in KnownLocationInputs \cup {<<>>} :
       LET state == IF known = <<>> THEN EngineFreshState
                    ELSE With(EngineFreshState, "knownLocations", known)
       IN eng = EngineCall("start", caseData, NoIntent, state, NothingNew(state), 0)

\* updateGameState(intent, progress, caseData)
EngApply ==
  /\ eng.steps < MaxEngineSteps
  /\ \E intent \in IntentInputs :
       eng' = With(EngineCall("apply", eng.caseData, intent, eng.after,
                              updateGameState(intent, eng.after, eng.caseData), eng.steps + 1),
                   "argument",
                   argumentAfter(eng.after,
                                 updateGameState(intent, eng.after, eng.caseData).newState))
  /\ UNCHANGED <<session_state, session_progress, issued, turns, chat, sess>>
  /\ UNCHANGED intentVars
  /\ UNCHANGED del

\* saveSessionProgress(sessionId, p) then readSessionProgress(sessionId),
\* p the progress the handler would persist for the current state
EngSaveRead ==
  /\ eng.kind = "apply"
  /\ LET p == progressToSave(With(eng.after, "chat_history", ArrayOrEmpty(eng.after, "chat_history")))
         saved == saveSessionProgress(session_progress, EngineSession, p)
         touched == touchSessionState(session_state, EngineSession)
     IN /\ session_progress' = saved
        /\ session_state' = touched
        /\ eng' = EngineCall("roundtrip", eng.caseData, NoIntent, p,
                             NothingNew(readSessionProgress(touched, saved, EngineSession).value),
                             eng.steps)
  /\ UNCHANGED <<issued, turns, chat, sess>>
  /\ UNCHANGED intentVars
  /\ UNCHANGED del

NextEngine == EngApply \/ EngSaveRead

SpecEngine == InitEngine /\ [][NextEngine]_vars

\* ============================================ the intent-based revision
\* POST /api/chat of the revision that resolves the intent by keyword
\* (server.js lines 607-911) over the game_sessions table.  A message is the
\* sequence of its characters.
Space == " "

LatinLower == {"a","b","c","d","e","f","g","h","i","j","k","l","m",
               "n","o","p","q","r","s","t","u","v","w","x","y","z"}
LatinUpper == {"A","B","C","D","E","F","G","H","I","J","K","L","M",
               "N","O","P","Q","R","S","T","U","V","W","X","Y","Z"}
\* the twelve Turkish letters of the character class, by name
TurkishLetters == {"g-breve","u-umlaut","s-cedilla","dotless-i","o-umlaut","c-cedilla",
                   "G-breve","U-umlaut","S-cedilla","dotted-I","O-umlaut","C-cedilla"}

\* the character class of line 623: a-z, A-Z and the Turkish letters
IsAlphabetic(ch) == ch \in LatinLower \cup LatinUpper \cup TurkishLetters

\* message.trim()
RECURSIVE trim(_)
trim(message) ==
  IF message = <<>> THEN message
  ELSE IF Head(message) = Space THEN trim(Tail(message))
  ELSE IF message[Len(message)] = Space THEN trim(SubSeq(message, 1, Len(message) - 1))
  ELSE message

alphabeticCount(sanitizedMessage) ==
  Cardinality({i \in 1..Len(sanitizedMessage) : IsAlphabetic(sanitizedMessage[i])})

MinMessageLength == 2

\* the first check alone
passesValidation_lengthOnly(sanitizedMessage) ==
  ~(Len(sanitizedMessage) < MinMessageLength)

\* lines 613-628: the two checks that let a message through
passesValidation(sanitizedMessage) ==
  /\ ~(Len(sanitizedMessage) < MinMessageLength)
  /\ ~(alphabeticCount(sanitizedMessage) < 1)

TIME_LIMIT_MS == 5000

\* the test with half the cooldown
rateLimited_halved(timestamps, sessionId, currentTime) ==
  /\ sessionId \in DOMAIN timestamps
  /\ timestamps[sessionId] # 0
  /\ currentTime - timestamps[sessionId] < TIME_LIMIT_MS \div 2

\* a limit that still holds when the 5000 ms have just passed
rateLimited_inclusive(timestamps, sessionId, currentTime) ==
  /\ sessionId \in DOMAIN timestamps
  /\ timestamps[sessionId] # 0
  /\ currentTime - timestamps[sessionId] <= TIME_LIMIT_MS

\* lines 638-652: a previous request of the session is on record and less
\* than the cooldown ago
rateLimited(timestamps, sessionId, currentTime) ==
  /\ sessionId \in DOMAIN timestamps
  /\ timestamps[sessionId] # 0
  /\ currentTime - timestamps[sessionId] < TIME_LIMIT_MS

\* Math.ceil((TIME_LIMIT_MS - timeSinceLastRequest) / 1000)
waitTimeSeconds(timestamps, sessionId, currentTime) ==
  LET left == TIME_LIMIT_MS - (currentTime - timestamps[sessionId])
  IN (left + 999) \div 1000

\* the contents of all stored messages, whoever wrote them
previousUserMessages_allRoles(gameState) ==
  LET previousChatHistory == ArrayOrEmpty(gameState, "chatHistory")
  IN [i \in 1..Len(previousChatHistory) |-> previousChatHistory[i].content]

\* lines 684-689: the contents of the stored user messages, oldest first
previousUserMessages(gameState) ==
  LET previousChatHistory == ArrayOrEmpty(gameState, "chatHistory")
      ofUser == SelectSeq(previousChatHistory, LAMBDA msg : msg.role = "user")
  IN [i \in 1..Len(ofUser) |-> ofUser[i].content]

\* the test asking for three stored repetitions
isThirdRepetition_afterThree(sanitizedMessage, gameState) ==
  LET prev == previousUserMessages(gameState)
  IN /\ Len(prev) >= 3
     /\ \A k \in 0..2 : sanitizedMessage = prev[Len(prev) - k]

\* lines 692-698: the message equals the last two stored user messages
isThirdRepetition(sanitizedMessage, gameState) ==
  LET prev == previousUserMessages(gameState)
  IN /\ Len(prev) >= 2
     /\ sanitizedMessage = prev[Len(prev)]
     /\ sanitizedMessage = prev[Len(prev) - 1]

\* REPETITION_WARNINGS.TR / .EN, chosen by the Turkish-letter test of line 701
repetitionWarning(sanitizedMessage) ==
  IF \E i \in 1..Len(sanitizedMessage) : sanitizedMessage[i] \in TurkishLetters
  THEN "REPETITION_WARNINGS.TR" ELSE "REPETITION_WARNINGS.EN"

ValidationErrorText == "Input is too short or contains no meaningful characters."
BadSignalText == "Bad signal at the crime scene"

\* ---------------------------------------------- intent-based: case data
\* the row of table cases that getCaseData selects; keywords are character
\* sequences
CasesRow ==
  [id |-> CaseId, title |-> "title", synopsis |-> "synopsis", case_number |-> "001",
   locations |->
     << [id |-> "study", name |-> "Study", scene_description |-> "scene_study",
         keywords |-> << <<"s","t","u","d","y">> >>,
         interactables |-> << [id |-> "desk", keywords |-> << <<"d","e","s","k">> >>],
                              [id |-> "vase", keywords |-> << <<"v","a","s","e">> >>] >>],
        [id |-> "kitchen", name |-> "Kitchen", scene_description |-> "scene_kitchen",
         keywords |-> << <<"k","i","t","c","h","e","n">> >>,
         interactables |-> << [id |-> "knife_block", keywords |-> << <<"k","n","i","f","e">> >>] >>] >>,
   victim |-> [name |-> "Victim"],
   suspects |-> << [name |-> "Butler"] >>,
   evidence_truth |-> EvidenceRows,
   suspect_truth |-> SuspectRows,
   correctaccusation |-> [suspectId |-> "sus_butler", evidenceId |-> "clue_knife"]]

\* getCaseData: the fields it copies out of the row
getCaseData(row) ==
  [id |-> row.id, title |-> row.title, synopsis |-> row.synopsis,
   caseNumber |-> row.case_number, locations |-> row.locations,
   victim |-> row.victim, suspects |-> row.suspects,
   evidence_truth |-> row.evidence_truth,
   correctaccusation |-> row.correctaccusation]

\* ---------------------------------------------- intent-based: parseIntent
\* String.prototype.toLowerCase, character by character
UpperSeq == <<"A","B","C","D","E","F","G","H","I","J","K","L","M",
              "N","O","P","Q","R","S","T","U","V","W","X","Y","Z">>
LowerSeq == <<"a","b","c","d","e","f","g","h","i","j","k","l","m",
              "n","o","p","q","r","s","t","u","v","w","x","y","z">>

toLowerCase(message) ==
  [i \in 1..Len(message) |->
     IF message[i] \in LatinUpper
     THEN LowerSeq[CHOOSE k \in 1..Len(UpperSeq) : UpperSeq[k] = message[i]]
     ELSE message[i]]

\* String.prototype.includes
includes(msg, keyword) ==
  \E i \in 1..(Len(msg) - Len(keyword) + 1) : SubSeq(msg, i, i + Len(keyword) - 1) = keyword

\* \w of a regular expression
IsWordChar(ch) ==
  ch \in LatinLower \cup LatinUpper \cup {"0","1","2","3","4","5","6","7","8","9","_"}

\* \b between positions p and p + 1 of msg
WordBoundary(msg, p) ==
  (p >= 1 /\ p <= Len(msg) /\ IsWordChar(msg[p]))
    # (p + 1 >= 1 /\ p + 1 <= Len(msg) /\ IsWordChar(msg[p + 1]))

\* new RegExp(`\\b${keyword}\\b`, 'i').test(msg)
matchesWord(msg, keyword) ==
  \E i \in 1..(Len(msg) - Len(keyword) + 1) :
    /\ SubSeq(msg, i, i + Len(keyword) - 1) = toLowerCase(keyword)
    /\ WordBoundary(msg, i - 1)
    /\ WordBoundary(msg, i + Len(keyword) - 1)

moveKeywords == << <<"g","o"," ","t","o">>,
                  <<"m","o","v","e"," ","t","o">>,
                  <<"t","r","a","v","e","l"," ","t","o">>,
                  <<"v","i","s","i","t">>,
                  <<"g","i","t">>,
                  <<"g","e","c-cedilla">>,
                  <<"y","u-umlaut","r","u-umlaut">>,
                  <<"g","i","d","e","l","i","m">>,
                  <<"g","i","d","i","y","o","r","u","m">> >>
talkKeywords == << <<"t","a","l","k">>,
                  <<"s","p","e","a","k">>,
                  <<"a","s","k">>,
                  <<"i","n","t","e","r","r","o","g","a","t","e">>,
                  <<"q","u","e","s","t","i","o","n">>,
                  <<"i","n","t","e","r","v","i","e","w">>,
                  <<"k","o","n","u","s-cedilla">>,
                  <<"s","o","r">>,
                  <<"s","o","r","g","u","l","a">> >>

\* the (entry, keyword) index pairs of a list of entries with keywords
KeywordPairs(entries) ==
  UNION {{<<i, j>> : j \in 1..Len(ArrayOrEmpty(entries[i], "keywords"))} :
           i \in 1..Len(entries)}

\* the first pair in iteration order; <<0, 0>> when there is none
FirstPair(hits) ==
  IF hits = {} THEN <<0, 0>>
  ELSE CHOOSE ij \in hits :
         \A kl \in hits : ij[1] < kl[1] \/ (ij[1] = kl[1] /\ ij[2] <= kl[2])

chatIntent == [action |-> "chat", target_id |-> Null, keywords |-> <<>>]

\* the phases with the move phase ahead of the inspect phase
parseIntent_moveFirst(message, caseData, currentGameState) ==
  LET msg == trim(toLowerCase(message))
      locations == ArrayOrEmpty(caseData, "locations")
      here == IF Has(currentGameState, "currentLocation")
              THEN FindLocation(locations, currentGameState.currentLocation) ELSE <<>>
  IN IF here = <<>> THEN chatIntent
     ELSE
       LET interactables == ArrayOrEmpty(here[1], "interactables")
           hit == FirstPair({ij \in KeywordPairs(interactables) :
                              matchesWord(msg, interactables[ij[1]].keywords[ij[2]])})
           hasMoveIntent == \E k \in 1..Len(moveKeywords) : includes(msg, moveKeywords[k])
           to == FirstPair({ij \in KeywordPairs(locations) :
                             includes(msg, toLowerCase(locations[ij[1]].keywords[ij[2]]))})
           talk == {k \in 1..Len(talkKeywords) : includes(msg, talkKeywords[k])}
       IN IF hasMoveIntent /\ to # <<0, 0>>
          THEN [action |-> "move", target_id |-> locations[to[1]].id,
                keywords |-> <<locations[to[1]].keywords[to[2]]>>]
          ELSE IF hit # <<0, 0>>
          THEN [action |-> "inspect", target_id |-> interactables[hit[1]].id,
                keywords |-> <<interactables[hit[1]].keywords[hit[2]]>>]
          ELSE IF talk # {}
          THEN [action |-> "talk", target_id |-> "suspect",
                keywords |-> <<talkKeywords[Min(talk)]>>]
          ELSE chatIntent

parseIntent(message, caseData, currentGameState) ==
  LET msg == trim(toLowerCase(message))
      locations == ArrayOrEmpty(caseData, "locations")
      here == IF Has(currentGameState, "currentLocation")
              THEN FindLocation(locations, currentGameState.currentLocation) ELSE <<>>
  IN IF here = <<>> THEN chatIntent
     ELSE
       LET interactables == ArrayOrEmpty(here[1], "interactables")
           hit == FirstPair({ij \in KeywordPairs(interactables) :
                              matchesWord(msg, interactables[ij[1]].keywords[ij[2]])})
           hasMoveIntent == \E k \in 1..Len(moveKeywords) : includes(msg, moveKeywords[k])
           to == FirstPair({ij \in KeywordPairs(locations) :
                             includes(msg, toLowerCase(locations[ij[1]].keywords[ij[2]]))})
           talk == {k \in 1..Len(talkKeywords) : includes(msg, talkKeywords[k])}
       IN IF hit # <<0, 0>>
          THEN [action |-> "inspect", target_id |-> interactables[hit[1]].id,
                keywords |-> <<interactables[hit[1]].keywords[hit[2]]>>]
          ELSE IF (hasMoveIntent \/ includes(msg, <<"g","i","t">>) \/ includes(msg, <<"g","e","c-cedilla">>)) /\ to # <<0, 0>>
          THEN [action |-> "move", target_id |-> locations[to[1]].id,
                keywords |-> <<locations[to[1]].keywords[to[2]]>>]
          ELSE IF talk # {}
          THEN [action |-> "talk", target_id |-> "suspect",
                keywords |-> <<talkKeywords[Min(talk)]>>]
          ELSE chatIntent

\* ---------------------------------------- intent-based: updateGameState
\* one of the two loops of the inspect branch: ids of triggered records not
\* yet unlocked are pushed to newState[key]; the push throws a TypeError when
\* the state has no such array
unlockTriggered(state, key, records, target_id) ==
  LET triggered == Triggered(records, target_id)
      fresh == SelectSeq(triggered, LAMBDA e : e.id \notin Range(ArrayOrEmpty(state, key)))
      freshIds == Dedupe([i \in 1..Len(fresh) |-> fresh[i].id])
  IN IF fresh # <<>> /\ ~Has(state, key)
     THEN [threw |-> TRUE, state |-> state, news |-> <<>>]
     ELSE [threw |-> FALSE,
           state |-> IF fresh = <<>> THEN state ELSE With(state, key, state[key] \o freshIds),
           news |-> [i \in 1..Len(freshIds) |->
                       (CHOOSE e \in Range(fresh) : e.id = freshIds[i])]]

\* lines 224-290
updateGameState_intent(intent, currentGameState, caseData) ==
  LET newState == currentGameState
      same == [threw |-> FALSE, newState |-> newState, newClues |-> <<>>, newSuspectInfo |-> <<>>]
  IN IF intent.action = "inspect" /\ intent.target_id # Null
     THEN LET ev == unlockTriggered(newState, "unlockedClues",
                                    ArrayOrEmpty(caseData, "evidence_truth"), intent.target_id)
              su == unlockTriggered(ev.state, "unlockedSuspects",
                                    ArrayOrEmpty(caseData, "suspect_truth"), intent.target_id)
          IN [threw |-> ev.threw \/ su.threw, newState |-> su.state,
              newClues |-> ev.news, newSuspectInfo |-> su.news]
     ELSE IF intent.action = "move" /\ intent.target_id # Null
     THEN IF intent.target_id \in Range(ArrayOrEmpty(newState, "knownLocations"))
          THEN LET found == FindLocation(ArrayOrEmpty(caseData, "locations"), intent.target_id)
               IN [same EXCEPT
                     !.newState = With(newState, "currentLocation", intent.target_id),
                     !.newClues = IF found # <<>> /\ Has(found[1], "scene_description")
                                  THEN << [type |-> "location_change",
                                           description |-> found[1].scene_description] >>
                                  ELSE <<>>]
          ELSE same
     ELSE same

\* ------------------------------------------- intent-based: the handler
MaxIntentTurns == 3   \* chat requests started in one behaviour
MaxTicks == 4         \* clock advances in one behaviour
StartTime == 100000   \* Date.now() when the first request arrives
TickMs == 2500        \* the step by which the clock advances

\* the session row POST /api/sessions of the game_sessions revision inserts
initialGameState(firstLocation) ==
  [currentLocation |-> firstLocation.id, unlockedClues |-> <<>>,
   interrogatedSuspects |-> <<>>, knownLocations |-> <<firstLocation.id>>,
   stuckCounter |-> 0,
   chatHistory |-> << [role |-> "model", content |-> firstLocation.scene_description] >>]

\* the requests of this revision are taken one at a time
IntentSlots == {1}

IntentSession == 1
IntentSessionIds == {IntentSession, 2}    \* 2 names no session

\* request bodies: messages by their characters
MsgDesk  == <<"c","h","e","c","k",Space,"t","h","e",Space,"d","e","s","k">>
MsgGoStudy == <<"g","o",Space,"t","o",Space,"s","t","u","d","y">>
MsgShort == <<Space, ".", Space>>
MsgDigits == <<"4", "2">>
IntentMessages == {MsgDesk, MsgGoStudy, MsgShort, MsgDigits}

\* the model's answer text of the intent-based revision
IntentReply == <<Space, "o", "k", Space>>

IdleIntentChat ==
  [pc |-> "idle", sessionId |-> 0, message |-> <<>>, chatHistory |-> Null,
   gameState |-> EmptyObject, newState |-> EmptyObject,
   newClues |-> <<>>, newSuspectInfo |-> <<>>, modelCalled |-> FALSE,
   status |-> 0, responseText |-> Null, error |-> Null,
   unlockedEvidenceIds |-> <<>>, unlockedSuspectInfoIds |-> <<>>]

\* a request that has been answered holds nothing but its answer
Answered(r) ==
  [r EXCEPT !.pc = "done", !.chatHistory = Null, !.gameState = EmptyObject,
            !.newState = EmptyObject, !.newClues = <<>>, !.newSuspectInfo = <<>>]

InitIntent ==
  /\ session_state = EmptyObject
  /\ session_progress = EmptyObject
  /\ issued = 0
  /\ turns = 0
  /\ chat = [c \in ChatSlots |-> IdleChat]
  /\ sess = [h \in SessSlots |-> IdleSess]
  /\ eng = NoCall
  /\ game_sessions = Insert(EmptyObject, IntentSession,
                            [session_id |-> IntentSession, case_id |-> CaseId,
                             game_state |-> initialGameState(CasesRow.locations[1])])
  /\ lastRequestTimestamps = EmptyObject
  /\ clock = StartTime
  /\ ichat = [c \in IntentSlots |-> IdleIntentChat]
  /\ del = IdleDelete

\* time passes
Tick ==
  /\ clock + TickMs <= StartTime + MaxTicks * TickMs
  /\ clock' = clock + TickMs
  /\ UNCHANGED <<game_sessions, lastRequestTimestamps, ichat>>
  /\ UNCHANGED tagVars
  /\ UNCHANGED del

\* lines 607-655: a request arrives; input validation, then rate limiting,
\* both before the first await
IntentAdmit(c) ==
  /\ ichat[c].pc \in {"idle", "done"}
  /\ \A d \in IntentSlots : d < c => ichat[d].pc \notin {"idle", "done"}
  /\ turns < MaxIntentTurns
  /\ turns' = turns + 1
  /\ \E sessionId \in IntentSessionIds, message \in IntentMessages :
     \E echo \in IF sessionId \in DOMAIN game_sessions THEN BOOLEAN ELSE {FALSE} :
       LET sanitizedMessage == trim(message)
           chatHistory == IF echo /\ sessionId \in DOMAIN game_sessions
                          THEN ArrayOrEmpty(game_sessions[sessionId].game_state, "chatHistory")
                          ELSE Null
           request == [IdleIntentChat EXCEPT !.sessionId = sessionId,
                                             !.message = sanitizedMessage]
       IN IF ~passesValidation(sanitizedMessage)
          THEN /\ ichat' = [ichat EXCEPT ![c] =
                              [request EXCEPT !.pc = "done", !.status = 400,
                                              !.error = ValidationErrorText]]
               /\ UNCHANGED lastRequestTimestamps
          ELSE IF rateLimited(lastRequestTimestamps, sessionId, clock)
          THEN /\ ichat' = [ichat EXCEPT ![c] =
                              [request EXCEPT !.pc = "done", !.status = 429,
                                 !.error = <<"Rate limit exceeded. Please wait",
                                             waitTimeSeconds(lastRequestTimestamps, sessionId, clock)>>]]
               /\ UNCHANGED lastRequestTimestamps
          ELSE /\ lastRequestTimestamps' = With(lastRequestTimestamps, sessionId, clock)
               /\ ichat' = [ichat EXCEPT ![c] =
                              [request EXCEPT !.pc = "lookup", !.chatHistory = chatHistory]]
  /\ UNCHANGED <<game_sessions, clock>>
  /\ UNCHANGED <<session_state, session_progress, issued, chat, sess, eng>>
  /\ UNCHANGED del

\* lines 666-790: the session is read, the repetition block runs, the intent
\* is parsed and applied; what follows is the model call
IntentLookup(c) ==
  /\ ichat[c].pc = "lookup"
  /\ LET r == ichat[c]
         found == r.sessionId \in DOMAIN game_sessions
         gameState == game_sessions[r.sessionId].game_state
         caseData == getCaseData(CasesRow)
         intent == parseIntent(r.message, caseData, gameState)
         u == updateGameState_intent(intent, gameState, caseData)
     IN ichat' = [ichat EXCEPT ![c] =
          IF ~found
          THEN [Answered(r) EXCEPT !.status = 500, !.error = BadSignalText]
          ELSE IF isThirdRepetition(r.message, gameState)
          THEN [Answered(r) EXCEPT !.status = 200,
                         !.responseText = repetitionWarning(r.message)]
          ELSE IF u.threw
          THEN [Answered(r) EXCEPT !.status = 500, !.error = BadSignalText]
          ELSE [r EXCEPT !.pc = "called", !.modelCalled = TRUE,
                         !.gameState = gameState, !.newState = u.newState,
                         !.newClues = u.newClues, !.newSuspectInfo = u.newSuspectInfo]]
  /\ UNCHANGED <<game_sessions, lastRequestTimestamps, clock>>
  /\ UNCHANGED tagVars
  /\ UNCHANGED del

\* lines 901-911: the model call fails
IntentModelFails(c) ==
  /\ ichat[c].pc = "called"
  /\ ichat' = [ichat EXCEPT ![c] =
       [Answered(@) EXCEPT !.status = 500, !.error = BadSignalText]]
  /\ UNCHANGED <<game_sessions, lastRequestTimestamps, clock>>
  /\ UNCHANGED tagVars
  /\ UNCHANGED del

\* lines 845-876: the model answers, with text or with no candidate at all;
\* the new state gets the two messages appended to the history the request
\* carried (a request without one fails at the spread)
IntentModelReplies(c) ==
  /\ ichat[c].pc = "called"
  /\ \E answer \in {IntentReply, <<>>} :
       LET r == ichat[c]
           trimmedText == trim(answer)
           pair == << [role |-> "user", content |-> r.message],
                      [role |-> "model", content |-> trimmedText] >>
           lastFive == ArrayOrEmpty(r.gameState, "last_five_messages") \o pair
           kept == IF Len(lastFive) > 10
                   THEN SubSeq(lastFive, Len(lastFive) - 9, Len(lastFive))
                   ELSE lastFive
       IN ichat' = [ichat EXCEPT ![c] =
            IF r.chatHistory = Null
            THEN [Answered(r) EXCEPT !.status = 500, !.error = BadSignalText]
            ELSE [r EXCEPT !.pc = "saving", !.responseText = trimmedText,
                           !.newState = With(With(r.newState, "last_five_messages", kept),
                                             "chatHistory", r.chatHistory \o pair)]]
  /\ UNCHANGED <<game_sessions, lastRequestTimestamps, clock>>
  /\ UNCHANGED tagVars
  /\ UNCHANGED del

\* a property read that yields undefined
Undefined == "<undefined>"

\* newClues.map(c => c.id)
mapId(items) == [i \in 1..Len(items) |-> IF Has(items[i], "id") THEN items[i].id ELSE Undefined]

\* lines 878-900: the state is saved (a failure is logged only) and the
\* response is sent
IntentSave(c) ==
  /\ ichat[c].pc = "saving"
  /\ LET r == ichat[c]
     IN /\ \E saved \in BOOLEAN :
             game_sessions' =
               IF saved /\ r.sessionId \in DOMAIN game_sessions
               THEN [game_sessions EXCEPT ![r.sessionId].game_state = r.newState]
               ELSE game_sessions
        /\ ichat' = [ichat EXCEPT ![c] =
             [Answered(r) EXCEPT !.status = 200,
                       !.unlockedEvidenceIds = mapId(r.newClues),
                       !.unlockedSuspectInfoIds = mapId(r.newSuspectInfo)]]
  /\ UNCHANGED <<lastRequestTimestamps, clock>>
  /\ UNCHANGED tagVars
  /\ UNCHANGED del

NextIntent ==
  \/ Tick
  \/ \E c \in IntentSlots : IntentAdmit(c)
  \/ \E c \in IntentSlots : IntentLookup(c)
  \/ \E c \in IntentSlots : IntentModelFails(c)
  \/ \E c \in IntentSlots : IntentModelReplies(c)
  \/ \E c \in IntentSlots : IntentSave(c)

SpecIntent == InitIntent /\ [][NextIntent]_vars

\* -------------------------------------- DELETE /api/sessions/:sessionId
MaxDeletes == 2   \* DELETE requests started in one behaviour

HexDigits ==
  {"0", "1", "2", "3", "4", "5", "6", "7", "8", "9",
   "a", "b", "c", "d", "e", "f", "A", "B", "C", "D", "E", "F"}

\* /^[0-9a-f]{8}-[0-9a-f]{4}-[0-9a-f]{4}-[0-9a-f]{4}-[0-9a-f]{12}$/i
uuidRegexTest(sessionId) ==
  /\ Len(sessionId) = 36
  /\ \A i \in 1..36 : IF i \in {9, 14, 19, 24} THEN sessionId[i] = "-"
                      ELSE sessionId[i] \in HexDigits

\* the text of the n-th uuid handed out
UuidText(n) ==
  [i \in 1..36 |-> IF i \in {9, 14, 19, 24} THEN "-"
                   ELSE IF i = 8 THEN <<"1", "2", "3", "4">>[n] ELSE "0"]

\* the session ids a DELETE request may name: those handed out, one more
\* that names no session, one a character short and one with a letter that
\* is no hex digit
DeleteIds(n) ==
  {UuidText(k) : k \in 1..(n + 1)}
    \cup {SubSeq(UuidText(1), 1, 35), [UuidText(1) EXCEPT ![1] = "g"]}

\* .delete().eq('session_id', sessionId): the rows left
Delete(table, sessionId) ==
  [x \in {y \in DOMAIN table : UuidText(y) # sessionId} |-> table[x]]

\* what deleteSession hands back to the route: the helper has no return
\* statement
deleteSessionResult(state_table, sessionId) == Null

\* the route up to the helper's first store operation: the parameter is
\* validated, then the session_progress row is deleted
DeleteProgress ==
  /\ del.pc \in {"idle", "done"}
  /\ del.started < MaxDeletes
  /\ \E sessionId \in DeleteIds(issued) :
       IF ~uuidRegexTest(sessionId)
       THEN /\ del' = [pc |-> "done", sessionId |-> sessionId, status |-> 400,
                       started |-> del.started + 1]
            /\ UNCHANGED session_progress
       ELSE /\ session_progress' = Delete(session_progress, sessionId)
            /\ del' = [pc |-> "state", sessionId |-> sessionId, status |-> 0,
                       started |-> del.started + 1]
  /\ UNCHANGED <<session_state, issued, turns, chat, sess, eng>>
  /\ UNCHANGED intentVars

\* the helper's second store operation and the route's answer
DeleteState ==
  /\ del.pc = "state"
  /\ LET deletedRows == deleteSessionResult(session_state, del.sessionId)
     IN /\ session_state' = Delete(session_state, del.sessionId)
        /\ del' = [del EXCEPT !.pc = "done",
                              !.status = IF deletedRows = Null \/ Len(deletedRows) = 0
                                         THEN 404 ELSE 200]
  /\ UNCHANGED <<session_progress, issued, turns, chat, sess, eng>>
  /\ UNCHANGED intentVars

\* the session routes alone
NextSessions ==
  \/ \E h \in SessSlots : SessFetchLatest(h)
  \/ \E h \in SessSlots : SessResume(h)
  \/ \E h \in SessSlots : SessInsertState(h)
  \/ \E h \in SessSlots : SessInsertProgress(h)
  \/ DeleteProgress
  \/ DeleteState

SpecSessions == Init /\ [][NextSessions]_vars

\* ------------------------------------------------ reply specification
\* One session taken turn by turn through the part of the tag-based chat
\* handler that works on the model's reply: the user message is pushed, the
\* reply is parsed, merged and cleaned, the assistant message is pushed.
MaxReplySteps == 3   \* turns in one behaviour

ReplyTagsOnly == <<TagStart, "desk", TagEnd, TagIds, "clue_letter">>
ReplyTwoLines == <<"a", "letter", NL, TagIds, "clue_letter", NL, "indeed">>
\* a reply whose hidden action names an object of the kitchen
ReplyKnifeBlock == <<"the", "knives", TagStart, "knife_block", TagEnd>>
\* a reply that lists ids alone, one of them twice, with no hidden action
ReplyIdsOnly == <<"see", NL, TagIds, "info_alibi", Comma, "clue_knife", Comma, "info_alibi">>
ReplyInputs ==
  {ReplyDesk, ReplyTagsOnly, ReplyTwoLines, ReplyKnifeBlock, ReplyIdsOnly, InvalidStructureText}

ReplyCall(caseData, raw, before, out, steps) ==
  [kind |-> "reply", caseData |-> caseData, raw |-> raw, before |-> before,
   after |-> out.newState, response |-> out.response,
   toSave |-> progressToSave(out.newState),
   dynamicContext |-> generateDynamicGameStateSummary(
                        before, <<>>, caseData, getCaseInitialData(InitialRow, ImmutableRow)),
   newlyAddedIds |-> out.newlyAddedIds, skippedIds |-> out.skippedIds, steps |-> steps]

InitReply ==
  /\ session_state = EngineStateTable
  /\ session_progress = EngineProgressTable
  /\ issued = 1
  /\ turns = 0
  /\ chat = [c \in ChatSlots |-> IdleChat]
  /\ sess = [h \in SessSlots |-> IdleSess]
  /\ IntentOff
  /\ del = IdleDelete
  /\ \E caseData \in CaseDataInputs :
       eng = [ReplyCall(caseData, <<>>, EngineFreshState,
                        [newState |-> With(EngineFreshState, "chat_history", <<>>),
                         response |-> Null,
                         newlyAddedIds |-> <<>>, skippedIds |-> <<>>], 0)
              EXCEPT !.kind = "start"]

\* lines 2514-2516, 2558-2584 and 2640-2795 of one turn
ReplyTurn ==
  /\ eng.steps < MaxReplySteps
  /\ \E raw \in ReplyInputs :
       LET newState == prepareState(eng.after, UserMessage, Null)
       IN eng' = ReplyCall(eng.caseData, raw, newState,
                           applyReply(newState, raw, eng.caseData), eng.steps + 1)
  /\ UNCHANGED <<session_state, session_progress, issued, turns, chat, sess>>
  /\ UNCHANGED intentVars
  /\ UNCHANGED del

NextReply == ReplyTurn

SpecReply == InitReply /\ [][NextReply]_vars

\* ------------------------------------------- summarization specification
\* One session taken through successful chat turns, as far as the chat
\* history and the summarization trigger go: lines 2509-2553 (push of the
\* user message, trigger test, summarization call) and 2772-2780 (push of
\* the assistant reply).
MaxSummaryTurns == 10   \* turns in one behaviour

SummaryTurnCall(before, gameState, calls, due, summary, context, status, steps) ==
  [kind |-> "turn", before |-> before, after |-> gameState, calls |-> calls,
   due |-> due, summary |-> summary, context |-> context, status |-> status,
   steps |-> steps]

\* what a session's progress holds of its memory
MemoryOf(gameState) ==
  [chat_history |-> gameState.chat_history, ai_core_summary |-> gameState.ai_core_summary]

FreshMemory == MemoryOf(initialProgress(EngineSession, LocStudy))

InitSummary ==
  /\ session_state = EngineStateTable
  /\ session_progress = EngineProgressTable
  /\ issued = 1
  /\ turns = 0
  /\ chat = [c \in ChatSlots |-> IdleChat]
  /\ sess = [h \in SessSlots |-> IdleSess]
  /\ IntentOff
  /\ del = IdleDelete
  /\ eng = [SummaryTurnCall(FreshMemory, FreshMemory, 0, FALSE, Null, Null, 0, 0)
            EXCEPT !.kind = "start"]

\* a turn with `message`: the summarization call, when issued, is counted
\* and yields a new summary or fails (Null); the main call gets the context
\* of the prepared state and answers or fails; a turn whose main call fails
\* is answered 500 and saves nothing
SummaryTurn ==
  /\ eng.steps < MaxSummaryTurns
  /\ \E message \in Messages, modelFails \in BOOLEAN :
     \E summary \in (IF summaryDue(eng.after, message)
                     THEN {Null, "summary_rewritten"} ELSE {Null}) :
       LET due == summaryDue(eng.after, message)
           newState == prepareState(eng.after, message, summary)
           dynamicContext == generateDynamicGameStateSummary(
                               newState, <<>>, getCaseImmutableRecords(ImmutableRow),
                               getCaseInitialData(InitialRow, ImmutableRow))
           reply == aiResponse(InvalidStructureText)
           saved == MemoryOf(With(newState, "chat_history",
                                  Append(newState.chat_history, reply)))
       IN eng' = SummaryTurnCall(
                   eng.after, IF modelFails THEN eng.after ELSE saved,
                   eng.calls + (IF due THEN 1 ELSE 0), due, summary,
                   dynamicContext.ai_core_summary,
                   IF modelFails THEN 500 ELSE 200, eng.steps + 1)
  /\ UNCHANGED <<session_state, session_progress, issued, turns, chat, sess>>
  /\ UNCHANGED intentVars
  /\ UNCHANGED del

NextSummary == SummaryTurn

SpecSummary == InitSummary /\ [][NextSummary]_vars

\* ------------------------------------------- createSession specification
\* createSession called directly, one call at a time, with start location
\* ids present in and absent from the location graph.
MaxCreates == 3   \* calls in one behaviour

StartIdInputs == {"study", "kitchen", "cellar"}

NotFoundError == "Initial location with ID not found in locationData."
StateInsertError == "Failed to create session state."
ProgressInsertError == "Failed to create session progress."

\* a lookup that falls back to the first location of the graph
initialLocationOf_firstLocation(locationData, initialLocationId) ==
  IF FindLocation(locationData, initialLocationId) # <<>>
  THEN FindLocation(locationData, initialLocationId)
  ELSE << locationData[1] >>

\* locationData.find(loc => loc.id === initialLocationId)
initialLocationOf(locationData, initialLocationId) ==
  FindLocation(locationData, initialLocationId)

CreateCall(pc, initialLocationId, sessionId, error, stateBefore, progressBefore, steps) ==
  [kind |-> "create", pc |-> pc, initialLocationId |-> initialLocationId,
   sessionId |-> sessionId, error |-> error,
   stateBefore |-> stateBefore, progressBefore |-> progressBefore, steps |-> steps]

InitCreate ==
  /\ session_state = EmptyObject
  /\ session_progress = EmptyObject
  /\ issued = 0
  /\ turns = 0
  /\ chat = [c \in ChatSlots |-> IdleChat]
  /\ sess = [h \in SessSlots |-> IdleSess]
  /\ IntentOff
  /\ del = IdleDelete
  /\ eng = [CreateCall("done", "study", 0, Null, EmptyObject, EmptyObject, 0)
            EXCEPT !.kind = "start"]

\* the call up to its first store operation: the uuid, the lookup of the
\* start location, the insert of the session_state row
CreateSessionState ==
  /\ eng.pc = "done"
  /\ eng.steps < MaxCreates
  /\ \E initialLocationId \in StartIdInputs, stateError \in BOOLEAN :
       LET locationData == getCaseImmutableRecords(ImmutableRow).locationData
           sessionId == issued + 1
           call == CreateCall("done", initialLocationId, sessionId, Null,
                              session_state, session_progress, eng.steps + 1)
       IN /\ issued' = sessionId
          /\ IF initialLocationOf(locationData, initialLocationId) = <<>>
             THEN /\ eng' = [call EXCEPT !.error = NotFoundError]
                  /\ UNCHANGED session_state
             ELSE IF stateError
             THEN /\ eng' = [call EXCEPT !.error = StateInsertError]
                  /\ UNCHANGED session_state
             ELSE /\ eng' = [call EXCEPT !.pc = "progress"]
                  /\ session_state' = Ranked(Insert(session_state, sessionId,
                                         initialStateRow(sessionId, CaseId, Now(session_state))))
  /\ UNCHANGED <<session_progress, turns, chat, sess>>
  /\ UNCHANGED intentVars
  /\ UNCHANGED del

\* the insert of the session_progress row; on its failure the session_state
\* row is deleted again and the call throws
CreateSessionProgress ==
  /\ eng.pc = "progress"
  /\ \E progressError \in BOOLEAN :
       LET locationData == getCaseImmutableRecords(ImmutableRow).locationData
           initialLocation == initialLocationOf(locationData, eng.initialLocationId)[1]
       IN IF progressError
          THEN /\ session_state' = Ranked(Without(session_state, {eng.sessionId}))
               /\ UNCHANGED session_progress
               /\ eng' = [eng EXCEPT !.pc = "done", !.error = ProgressInsertError]
          ELSE /\ session_progress' = Insert(session_progress, eng.sessionId,
                                             initialProgress(eng.sessionId, initialLocation))
               /\ UNCHANGED session_state
               /\ eng' = [eng EXCEPT !.pc = "done"]
  /\ UNCHANGED <<issued, turns, chat, sess>>
  /\ UNCHANGED intentVars
  /\ UNCHANGED del

NextCreate == CreateSessionState \/ CreateSessionProgress

SpecCreate == InitCreate /\ [][NextCreate]_vars

\* ---------------------------------------------- parseIntent specification
\* parseIntent applied to messages made of up to MaxWords phrases, for a
\* player at each location of the case.
MaxWords == 3   \* phrases in one message

Phrases ==
  { <<"d","e","s","k">>, <<"D","e","s","k">>, <<"d","e","s","k","s">>,
    <<"v","a","s","e">>, <<"k","n","i","f","e">>,
    <<"g","o",Space,"t","o">>, <<"k","i","t","c","h","e","n">>,
    <<"t","a","l","k">>, <<"h","e","l","l","o">> }

\* the phrases joined by single spaces
RECURSIVE Join(_)
Join(phrases) ==
  IF Len(phrases) = 1 THEN phrases[1]
  ELSE phrases[1] \o <<Space>> \o Join(Tail(phrases))

ParseMessages ==
  { Join(ps) : ps \in UNION {[1..n -> Phrases] : n \in 1..MaxWords} }

ParseCall(message, currentGameState, result) ==
  [kind |-> "parse", message |-> message, gameState |-> currentGameState,
   result |-> result]

InitParse ==
  /\ session_state = EmptyObject
  /\ session_progress = EmptyObject
  /\ issued = 0
  /\ turns = 0
  /\ chat = [c \in ChatSlots |-> IdleChat]
  /\ sess = [h \in SessSlots |-> IdleSess]
  /\ IntentOff
  /\ del = IdleDelete
  /\ \E message \in ParseMessages, i \in 1..Len(getCaseData(CasesRow).locations) :
       eng = [ParseCall(message, initialGameState(getCaseData(CasesRow).locations[i]), Null)
              EXCEPT !.kind = "start"]

\* the call of parseIntent on the message and the state drawn
ParseMessage ==
  /\ eng.kind = "start"
  /\ eng' = ParseCall(eng.message, eng.gameState,
                      parseIntent(eng.message, getCaseData(CasesRow), eng.gameState))
  /\ UNCHANGED <<session_state, session_progress, issued, turns, chat, sess>>
  /\ UNCHANGED intentVars
  /\ UNCHANGED del

NextParse == ParseMessage

SpecParse == InitParse /\ [][NextParse]_vars

\* ------------------------------------- resolver and engine specification
\* parseIntent and then updateGameState of the intent-based revision, applied
\* to a message and to a progress record createSession produced: the row it
\* inserted, and the same row as readSessionProgress hands it to a caller.
CreatedProgressRecords ==
  UNION { { initialProgress(EngineSession, location),
            readSessionProgress(
              Insert(EmptyObject, EngineSession, initialStateRow(EngineSession, CaseId, 1)),
              Insert(EmptyObject, EngineSession, initialProgress(EngineSession, location)),
              EngineSession).value } :
          location \in {LocStudy, LocKitchen} }

ResolveCall(kind, message, progress, intent, out) ==
  [kind |-> kind, message |-> message, progress |-> progress, intent |-> intent,
   threw |-> out.threw, newState |-> out.newState, newClues |-> out.newClues,
   newSuspectInfo |-> out.newSuspectInfo]

NotCalled(progress) ==
  [threw |-> FALSE, newState |-> progress, newClues |-> <<>>, newSuspectInfo |-> <<>>]

InitResolve ==
  /\ session_state = EmptyObject
  /\ session_progress = EmptyObject
  /\ issued = 0
  /\ turns = 0
  /\ chat = [c \in ChatSlots |-> IdleChat]
  /\ sess = [h \in SessSlots |-> IdleSess]
  /\ IntentOff
  /\ del = IdleDelete
  /\ \E message \in ParseMessages, progress \in CreatedProgressRecords :
       eng = ResolveCall("start", message, progress, chatIntent, NotCalled(progress))

\* parseIntent(message, caseData, progress)
ResolveIntent ==
  /\ eng.kind = "start"
  /\ eng' = ResolveCall("parsed", eng.message, eng.progress,
                        parseIntent(eng.message, getCaseData(CasesRow), eng.progress),
                        NotCalled(eng.progress))
  /\ UNCHANGED <<session_state, session_progress, issued, turns, chat, sess>>
  /\ UNCHANGED intentVars
  /\ UNCHANGED del

\* updateGameState(intent, progress, caseData)
ResolveUpdate ==
  /\ eng.kind = "parsed"
  /\ eng' = ResolveCall("updated", eng.message, eng.progress, eng.intent,
                        updateGameState_intent(eng.intent, eng.progress, getCaseData(CasesRow)))
  /\ UNCHANGED <<session_state, session_progress, issued, turns, chat, sess>>
  /\ UNCHANGED intentVars
  /\ UNCHANGED del

NextResolve == ResolveIntent \/ ResolveUpdate

SpecResolve == InitResolve /\ [][NextResolve]_vars

\* ------------------------------------------ chat and delete specification
\* One session exists; chat turns and DELETE requests for it interleave.
InitChatDelete ==
  /\ session_state = EngineStateTable
  /\ session_progress = EngineProgressTable
  /\ issued = 1
  /\ turns = 0
  /\ chat = [c \in ChatSlots |-> IdleChat]
  /\ sess = [h \in SessSlots |-> IdleSess]
  /\ eng = NoCall
  /\ IntentOff
  /\ del = IdleDelete

NextChatDelete ==
  \/ \E c \in ChatSlots : ChatFetch(c)
  \/ \E c \in ChatSlots : ChatModelFails(c)
  \/ \E c \in ChatSlots : ChatModelReplies(c)
  \/ \E c \in ChatSlots : ChatSaveProgress(c)
  \/ \E c \in ChatSlots : ChatTouchState(c)
  \/ DeleteProgress
  \/ DeleteState

SpecChatDelete == InitChatDelete /\ [][NextChatDelete]_vars

\* ------------------------------------------- store failure specification
\* createSession and deleteSession, each store operation of which may
\* answer with an error.

\* deleteSession's first store operation, the session_progress delete; on
\* its error the call throws and the route answers 500
DeleteSessionProgress ==
  /\ del.pc \in {"idle", "done"}
  /\ del.started < MaxDeletes
  /\ \E k \in 1..issued, progressError \in BOOLEAN :
       IF progressError
       THEN /\ del' = [pc |-> "done", sessionId |-> UuidText(k), status |-> 500,
                       started |-> del.started + 1]
            /\ UNCHANGED session_progress
       ELSE /\ session_progress' = Delete(session_progress, UuidText(k))
            /\ del' = [pc |-> "state", sessionId |-> UuidText(k), status |-> 0,
                       started |-> del.started + 1]
  /\ UNCHANGED <<session_state, issued, turns, chat, sess, eng>>
  /\ UNCHANGED intentVars

\* deleteSession's second store operation, the session_state delete; on its
\* error the call throws with the session_progress row already gone
DeleteSessionState ==
  /\ del.pc = "state"
  /\ \E stateError \in BOOLEAN :
       IF stateError
       THEN /\ del' = [del EXCEPT !.pc = "done", !.status = 500]
            /\ UNCHANGED session_state
       ELSE LET deletedRows == deleteSessionResult(session_state, del.sessionId)
            IN /\ session_state' = Ranked(Delete(session_state, del.sessionId))
               /\ del' = [del EXCEPT !.pc = "done",
                                     !.status = IF deletedRows = Null \/ Len(deletedRows) = 0
                                                THEN 404 ELSE 200]
  /\ UNCHANGED <<session_progress, issued, turns, chat, sess, eng>>
  /\ UNCHANGED intentVars

NextFaults ==
  \/ CreateSessionState
  \/ CreateSessionProgress
  \/ DeleteSessionProgress
  \/ DeleteSessionState

SpecFaults == InitCreate /\ [][NextFaults]_vars

\* ------------------------------------ chat handler that saves first
\* The revision of POST /api/chat that parses the intent against fixed word
\* tables, applies it and writes game_sessions.game_state before it calls
\* the model.
MaxEarlyTurns == 3   \* chat requests of one run

\* case_details.evidence of the case
StaticEvidence ==
  << [id |-> <<"E","0","1">>, name |-> <<"L","e","t","t","e","r">>,
      description |-> <<"A",Space,"n","o","t","e",Space,"l","e","f","t",Space,"o","n",Space,"t","h","e",Space,"d","e","s","k">>, location |-> "crime_scene"],
     [id |-> <<"E","0","2">>, name |-> <<"L","e","d","g","e","r">>,
      description |-> <<"A","c","c","o","u","n","t","s",Space,"o","f",Space,"t","h","e",Space,"f","i","r","m">>, location |-> "office"] >>
StaticCaseData == [id |-> CaseId, evidence |-> StaticEvidence]

\* the game_state the session route of this revision inserts
StaticGameState ==
  [currentLocation |-> "crime_scene", unlockedClues |-> <<>>,
   interrogatedSuspects |-> <<>>, knownLocations |-> <<"crime_scene">>,
   stuckCounter |-> 0]

\* objectTargets: the rows a message of the model can match, in the order of
\* the table, with their synonyms in Latin letters
objectTargets ==
  << [key |-> <<"d","e","s","k">>, keywords |-> << <<"d","e","s","k">>, <<"t","a","b","l","e">> >>],
     [key |-> <<"w","i","n","d","o","w">>, keywords |-> << <<"w","i","n","d","o","w">>, <<"c","a","m">> >>],
     [key |-> <<"l","e","t","t","e","r">>, keywords |-> << <<"l","e","t","t","e","r">>, <<"n","o","t","e">> >>] >>

\* locationTargets, likewise
locationTargets ==
  << [key |-> "crime_scene", keywords |-> << <<"s","c","e","n","e">>, <<"c","r","i","m","e",Space,"s","c","e","n","e">> >>],
     [key |-> "victim_house", keywords |-> << <<"h","o","u","s","e">>, <<"h","o","m","e">>, <<"r","e","s","i","d","e","n","c","e">>, <<"v","i","c","t","i","m",Space,"h","o","u","s","e">>, <<"e","v">> >>],
     [key |-> "office", keywords |-> << <<"o","f","f","i","c","e">>, <<"w","o","r","k","p","l","a","c","e">>, <<"o","f","i","s">> >>],
     [key |-> "warehouse", keywords |-> << <<"w","a","r","e","h","o","u","s","e">>, <<"s","t","o","r","a","g","e">>, <<"d","e","p","o">>, <<"a","m","b","a","r">> >>],
     [key |-> "park", keywords |-> << <<"p","a","r","k">>, <<"g","a","r","d","e","n">> >>] >>

talkKeywords_static ==
  << <<"t","a","l","k",Space,"t","o">>, <<"s","p","e","a","k",Space,"t","o">>, <<"a","s","k">>, <<"i","n","t","e","r","r","o","g","a","t","e">>, <<"q","u","e","s","t","i","o","n">>, <<"i","n","t","e","r","v","i","e","w">>, <<"s","o","r">>, <<"s","o","r","g","u","l","a">> >>

\* spoilerPatterns.some(pattern => pattern.test(message)), for messages whose
\* words are separated by single spaces and written in Latin letters
isSpoilerAttempt(message) ==
  LET msg == toLowerCase(message)
      fillers == { <<>>, <<"m","e",Space>>, <<"t","h","e",Space>>, <<"m","e",Space,"t","h","e",Space>> }
      listing == {verb \o <<Space>> \o filler \o noun :
                    verb \in { <<"a","l","l">>, <<"l","i","s","t">>, <<"s","h","o","w">>, <<"g","i","v","e">>, <<"t","e","l","l">> },
                    filler \in fillers,
                    noun \in { <<"e","v","i","d","e","n","c","e">>, <<"c","l","u","e","s">>, <<"i","t","e","m","s">> }}
      asking == {word \o <<Space>> \o verb \o <<Space>> \o filler \o noun :
                   word \in { <<"w","h","a","t">>, <<"w","h","i","c","h">> },
                   verb \in { <<"i","s">>, <<"a","r","e">> },
                   filler \in { <<>>, <<"t","h","e",Space>> },
                   noun \in { <<"e","v","i","d","e","n","c","e">>, <<"c","l","u","e","s">> }}
  IN \E phrase \in listing \cup asking : matchesWord(msg, phrase)

\* parseIntent of this revision: object targets, evidence names, locations
\* after a move keyword, talk keywords, chat
parseIntent_static(message, caseData) ==
  LET msg == trim(toLowerCase(message))
      objectHit == FirstPair({ij \in KeywordPairs(objectTargets) :
                                matchesWord(msg, objectTargets[ij[1]].keywords[ij[2]])})
      evidence == ArrayOrEmpty(caseData, "evidence")
      named == {i \in 1..Len(evidence) :
                  /\ Len(evidence[i].name) > 3
                  /\ includes(msg, toLowerCase(evidence[i].name))}
      hasMoveIntent == \E k \in 1..Len(moveKeywords) : includes(msg, moveKeywords[k])
      places == {i \in 1..Len(locationTargets) :
                   \E j \in 1..Len(locationTargets[i].keywords) :
                     includes(msg, locationTargets[i].keywords[j])}
      talks == {k \in 1..Len(talkKeywords_static) : includes(msg, talkKeywords_static[k])}
  IN IF objectHit # <<0, 0>>
     THEN [action |-> "inspect", target |-> objectTargets[objectHit[1]].key,
           keywords |-> <<objectTargets[objectHit[1]].keywords[objectHit[2]]>>]
     ELSE IF named # {}
     THEN LET i == CHOOSE i \in named : \A j \in named : i <= j
          IN [action |-> "inspect", target |-> evidence[i].id,
              keywords |-> <<toLowerCase(evidence[i].name)>>]
     ELSE IF hasMoveIntent /\ places # {}
     THEN LET i == CHOOSE i \in places : \A j \in places : i <= j
          IN [action |-> "move", target |-> locationTargets[i].key,
              keywords |-> <<"move", locationTargets[i].key>>]
     ELSE IF talks # {}
     THEN LET k == CHOOSE k \in talks : \A j \in talks : k <= j
          IN [action |-> "talk", target |-> "suspect", keywords |-> <<talkKeywords_static[k]>>]
     ELSE [action |-> "chat", target |-> Null, keywords |-> <<>>]

\* the evidence an inspect of target unlocks: not yet unlocked, at the
\* current location, matching the target by id, name or description
targetMatches(evidence, target) ==
  LET targetLower == toLowerCase(target)
      evidenceName == toLowerCase(evidence.name)
  IN \/ evidence.id = target
     \/ includes(evidenceName, targetLower)
     \/ includes(toLowerCase(evidence.description), targetLower)
     \/ includes(targetLower, evidenceName)

\* updateGameState of this revision; each unlock assigns the array read at
\* the start of the call with the one new id behind it
updateGameState_static(intent, currentGameState, caseData) ==
  LET currentLocation == IF Has(currentGameState, "currentLocation")
                         THEN currentGameState.currentLocation ELSE "crime_scene"
      unlockedClues == ArrayOrEmpty(currentGameState, "unlockedClues")
      stuck == IF Has(currentGameState, "stuckCounter") THEN currentGameState.stuckCounter ELSE 0
      evidenceItems == ArrayOrEmpty(caseData, "evidence")
      found == SelectSeq(evidenceItems,
                 LAMBDA e : /\ ~\E k \in 1..Len(unlockedClues) : unlockedClues[k] = e.id
                            /\ e.location = currentLocation
                            /\ targetMatches(e, intent.target))
      unlockedEvidence == [i \in 1..Len(found) |-> found[i].id]
      knownLocations == IF Has(currentGameState, "knownLocations")
                        THEN currentGameState.knownLocations ELSE <<"crime_scene">>
  IN IF intent.action = "inspect" /\ intent.target # Null
     THEN IF found # <<>>
          THEN [newState |-> With(With(currentGameState, "unlockedClues",
                                       Append(unlockedClues, found[Len(found)].id)),
                                  "stuckCounter", 0),
                progressMade |-> TRUE, unlockedEvidence |-> unlockedEvidence]
          ELSE [newState |-> With(currentGameState, "stuckCounter", stuck + 1),
                progressMade |-> FALSE, unlockedEvidence |-> <<>>]
     ELSE IF intent.action = "move" /\ intent.target # Null
     THEN IF \E k \in 1..Len(knownLocations) : knownLocations[k] = intent.target
          THEN [newState |-> With(currentGameState, "currentLocation", intent.target),
                progressMade |-> TRUE, unlockedEvidence |-> <<>>]
          ELSE [newState |-> With(currentGameState, "stuckCounter", stuck + 1),
                progressMade |-> FALSE, unlockedEvidence |-> <<>>]
     ELSE [newState |-> currentGameState, progressMade |-> FALSE, unlockedEvidence |-> <<>>]

MsgWindow == <<"t","h","e",Space,"w","i","n","d","o","w">>
MsgGoOffice == <<"g","o",Space,"t","o",Space,"t","h","e",Space,"o","f","f","i","c","e">>
MsgHello == <<"h","e","l","l","o">>
MsgListEvidence == <<"l","i","s","t",Space,"t","h","e",Space,"e","v","i","d","e","n","c","e">>
EarlyMessages == {MsgDesk, MsgWindow, MsgGoOffice, MsgHello, MsgListEvidence, <<>>}

\* one chat request of this revision: where it stands, what it carries, the
\* table as it was when the request arrived and how the request ended
EarlyCall(pc, sessionId, message, gameState, tableBefore, outcome, status, steps) ==
  [kind |-> "early", pc |-> pc, sessionId |-> sessionId, message |-> message,
   gameState |-> gameState, tableBefore |-> tableBefore, outcome |-> outcome,
   status |-> status, steps |-> steps]

InitEarly ==
  /\ session_state = EmptyObject
  /\ session_progress = EmptyObject
  /\ issued = 0
  /\ turns = 0
  /\ chat = [c \in ChatSlots |-> IdleChat]
  /\ sess = [h \in SessSlots |-> IdleSess]
  /\ game_sessions = Insert(EmptyObject, IntentSession,
                            [session_id |-> IntentSession, case_id |-> CaseId,
                             game_state |-> StaticGameState])
  /\ lastRequestTimestamps = EmptyObject
  /\ clock = 0
  /\ ichat = EmptyObject
  /\ del = IdleDelete
  /\ eng = EarlyCall("done", 0, <<>>, EmptyObject, game_sessions, "none", 0, 0)

\* the request's guards (fields, broad evidence requests) and the read of
\* the session's game_state
EarlyFetch ==
  /\ eng.pc = "done"
  /\ eng.steps < MaxEarlyTurns
  /\ \E message \in EarlyMessages, sessionId \in IntentSessionIds :
       LET call == EarlyCall("done", sessionId, message, EmptyObject, game_sessions,
                             "rejected", 0, eng.steps + 1)
       IN eng' = IF message = <<>> THEN [call EXCEPT !.status = 400]
                 ELSE IF isSpoilerAttempt(message) THEN [call EXCEPT !.status = 200]
                 ELSE IF sessionId \notin DOMAIN game_sessions
                 THEN [call EXCEPT !.status = 404]
                 ELSE [call EXCEPT !.pc = "fetched", !.outcome = "none",
                                   !.gameState = game_sessions[sessionId].game_state]
  /\ UNCHANGED <<session_state, session_progress, issued, turns, chat, sess>>
  /\ UNCHANGED intentVars
  /\ UNCHANGED del

\* steps 1 to 3: the intent is parsed and applied and the new state is
\* written to game_sessions; a failed write is logged only
EarlySave ==
  /\ eng.pc = "fetched"
  /\ \E updateError \in BOOLEAN :
       LET intent == parseIntent_static(eng.message, StaticCaseData)
           result == updateGameState_static(intent, eng.gameState, StaticCaseData)
       IN /\ game_sessions' =
               IF updateError THEN game_sessions
               ELSE [game_sessions EXCEPT ![eng.sessionId].game_state = result.newState]
          /\ eng' = [eng EXCEPT !.pc = "called", !.gameState = result.newState]
  /\ UNCHANGED <<session_state, session_progress, issued, turns, chat, sess>>
  /\ UNCHANGED <<lastRequestTimestamps, clock, ichat>>
  /\ UNCHANGED del

\* the model call throws: the catch answers 500
EarlyModelFails ==
  /\ eng.pc = "called"
  /\ eng' = [eng EXCEPT !.pc = "done", !.outcome = "failed", !.status = 500]
  /\ UNCHANGED <<session_state, session_progress, issued, turns, chat, sess>>
  /\ UNCHANGED intentVars
  /\ UNCHANGED del

\* the model answers: the text is sent with the ids unlocked
EarlyModelReplies ==
  /\ eng.pc = "called"
  /\ eng' = [eng EXCEPT !.pc = "done", !.outcome = "replied", !.status = 200]
  /\ UNCHANGED <<session_state, session_progress, issued, turns, chat, sess>>
  /\ UNCHANGED intentVars
  /\ UNCHANGED del

NextEarly == EarlyFetch \/ EarlySave \/ EarlyModelFails \/ EarlyModelReplies

SpecEarly == InitEarly /\ [][NextEarly]_vars

\* --------------------------------------------- two cases specification
\* One session of the first case; each chat request names a case id of its
\* own, and the handler reads the records of the case the request names.
MaxCaseTurns == 3   \* chat requests of one run

OtherCaseId == "case_2"

LocOffice ==
  [id |-> "office", name |-> "Office", scene_description |-> "scene_office",
   keywords |-> <<"office">>,
   interactables |-> << [id |-> "desk", name |-> "Desk", keywords |-> <<"desk">>] >>]

OtherEvidenceRows ==
  << [id |-> "clue_ledger", name |-> "Ledger", description |-> "desc_ledger",
      trigger_object_id |-> "desk"] >>

OtherSuspectRows ==
  << [id |-> "info_debt", name |-> "Debt", description |-> "desc_debt",
      trigger_object_id |-> "desk"] >>

OtherImmutableRow ==
  [case_id |-> OtherCaseId, full_story |-> "story_2",
   evidence_truth |-> OtherEvidenceRows, suspect_truth |-> OtherSuspectRows,
   correct_accusation |-> [suspectId |-> "sus_clerk", evidenceId |-> "clue_ledger"],
   location_data |-> <<LocOffice>>]

\* .from('case_immutable_records') ... .eq('case_id', caseId).single()
ImmutableRowOf(caseId) == IF caseId = CaseId THEN ImmutableRow ELSE OtherImmutableRow

\* the records of a case in the shape getCaseImmutableRecords returns, or
\* with the truth arrays also under the names the handler reads
RecordsOf(caseId, shape) ==
  LET row == ImmutableRowOf(caseId)
      returned == getCaseImmutableRecords(row)
  IN IF shape = "returned" THEN returned
     ELSE With(With(returned, "evidence_truth", row.evidence_truth),
               "suspect_truth", row.suspect_truth)

\* a reply that lists ids of the second case
ReplyLedger == <<"a", "ledger", NL, TagIds, "clue_ledger", Comma, "info_debt">>
CaseReplies == {ReplyDesk, ReplyLedger, ReplyIdsOnly}

CaseTurnCall(shape, caseId, raw, before, out, steps) ==
  [kind |-> "cases", shape |-> shape, caseId |-> caseId, raw |-> raw,
   before |-> before, after |-> out.newState,
   newlyAddedIds |-> out.newlyAddedIds, skippedIds |-> out.skippedIds, steps |-> steps]

InitCases ==
  /\ session_state = EngineStateTable
  /\ session_progress = EngineProgressTable
  /\ issued = 1
  /\ turns = 0
  /\ chat = [c \in ChatSlots |-> IdleChat]
  /\ sess = [h \in SessSlots |-> IdleSess]
  /\ IntentOff
  /\ del = IdleDelete
  /\ \E shape \in {"returned", "read"} :
       eng = [CaseTurnCall(shape, CaseId, <<>>, EngineFreshState,
                           [newState |-> With(EngineFreshState, "chat_history", <<>>),
                            newlyAddedIds |-> <<>>, skippedIds |-> <<>>], 0)
              EXCEPT !.kind = "start"]

\* one chat turn: the session's state by sessionId, the records by the
\* request's caseId, the reply merged into the state
CaseTurn ==
  /\ eng.steps < MaxCaseTurns
  /\ \E caseId \in {CaseId, OtherCaseId}, raw \in CaseReplies :
       LET immutableRecords == RecordsOf(caseId, eng.shape)
           newState == prepareState(eng.after, UserMessage, Null)
       IN eng' = CaseTurnCall(eng.shape, caseId, raw, newState,
                              applyReply(newState, raw, immutableRecords), eng.steps + 1)
  /\ UNCHANGED <<session_state, session_progress, issued, turns, chat, sess>>
  /\ UNCHANGED intentVars
  /\ UNCHANGED del

NextCases == CaseTurn

SpecCases == InitCases /\ [][NextCases]_vars

\* ================================================================ properties
\* chat_history entries one turn contributes: the user message (none for the
\* opening turn) and the assistant reply
TurnEntries(c) == IF chat[c].message = StartGame THEN 1 ELSE 2

Answered200(c) == chat[c].pc = "done" /\ chat[c].status = 200

SessionsOf(caseId) == {x \in DOMAIN session_state : session_state[x].case_id = caseId}

\* C1: when two POST /api/chat requests for the same session overlap and both
\* are answered 200, the persisted chat_history holds the user message and
\* the assistant reply of both turns.
C1_BothTurnsPersisted ==
  \A c, d \in ChatSlots :
    (c < d /\ Answered200(c) /\ Answered200(d) /\ chat[c].sessionId = chat[d].sessionId)
      => Len(session_progress[chat[c].sessionId].chat_history) >= TurnEntries(c) + TurnEntries(d)

\* C3: once every POST /api/sessions request for the case has been answered,
\* exactly one session exists for the case.
C3_OneSessionPerCase ==
  ((\E h \in SessSlots : sess[h].pc = "done") /\ (\A h \in SessSlots : sess[h].pc \in {"idle", "done"}))
    => Cardinality(SessionsOf(CaseId)) = 1

\* the logs a chat request has merged and is about to write
InFlightLogs == {chat[c].toSave : c \in {d \in ChatSlots : chat[d].pc \in {"saving", "touching"}}}

LogIds(progress) ==
  Ids(ArrayOrEmpty(progress, "evidence_log")) \cup Ids(ArrayOrEmpty(progress, "suspect_log"))

\* C4: an id the model supplies is applied to game state only after it has
\* been validated against the truth records: every entry of every stored
\* evidence_log and suspect_log, of every log about to be written, and of
\* every log the merge can produce from a pending request (whichever names
\* the truth arrays are loaded under) carries the id of a truth record.
C4_OnlyValidatedIds ==
  /\ \A sid \in DOMAIN session_progress : LogIds(session_progress[sid]) \subseteq TruthIds
  /\ \A p \in InFlightLogs : LogIds(p) \subseteq TruthIds
  /\ \A c \in ChatSlots : chat[c].pc = "called" =>
       \A raw \in ReplyTexts, records \in CaseDataInputs :
         LogIds(applyReply(chat[c].newState, raw, records).newState) \subseteq TruthIds

\* the model listed an id that is no truth record's, and the turn went on to save
C4_Witness ==
  \E c \in ChatSlots :
    /\ chat[c].pc = "saving"
    /\ "bogus_id" \in Range(extractEvidenceIds(chat[c].raw))
    /\ "bogus_id" \in Range(chat[c].skippedIds)
    /\ "bogus_id" \notin LogIds(chat[c].toSave)

\* Cases that differ from the authored one only in the answer and in the
\* descriptions of truth records.
AccusationInputs ==
  {ImmutableRow.correct_accusation, [suspectId |-> "sus_cook", evidenceId |-> "clue_letter"]}

Redescribed(rows, changed) ==
  [i \in 1..Len(rows) |->
     IF rows[i].id \in changed THEN With(rows[i], "description", "desc_other") ELSE rows[i]]

CaseVariants ==
  {[ImmutableRow EXCEPT !.correct_accusation = a,
                        !.evidence_truth = Redescribed(EvidenceRows, changed),
                        !.suspect_truth = Redescribed(SuspectRows, changed)] :
     a \in AccusationInputs, changed \in {{}, TruthIds} \cup {{id} : id \in TruthIds}}

\* the variant's truth records unlocked in `progress` are the authored ones
AgreesOnUnlocked(row, progress) ==
  \A r \in Range(row.evidence_truth) \cup Range(row.suspect_truth) :
    r.id \in LogIds(progress) => r \in Range(EvidenceRows) \cup Range(SuspectRows)

\* C5: the payload sent to the model is the same for every case that differs
\* from the session's case only in correctAccusation or in truth records the
\* session has not unlocked.
C5_PayloadHidesVault ==
  \A c \in ChatSlots : chat[c].pc = "called" =>
    \A row \in CaseVariants :
      AgreesOnUnlocked(row, chat[c].newState) =>
        chat[c].payload = aiRequestPayload(chat[c].newState, <<>>, chat[c].message,
                                           getCaseImmutableRecords(row),
                                           getCaseInitialData(InitialRow, row))

\* a request is with the model, its payload carrying chat memory of an
\* earlier turn and the current user message
C5_Witness ==
  \E c \in ChatSlots :
    /\ chat[c].pc = "called"
    /\ chat[c].message = UserMessage
    /\ Len(chat[c].payload.contents) > 1

\* the truth records of the case that name `target_id` as their trigger
EvidenceTriggeredBy(target_id) == {r \in Range(EvidenceRows) : r.trigger_object_id = target_id}
SuspectTriggeredBy(target_id) == {r \in Range(SuspectRows) : r.trigger_object_id = target_id}

\* C7: a turn whose inspect target is the trigger of truth records returned by
\* getCaseImmutableRecords has every such record in the log it belongs to and
\* reports as newly revealed exactly ids of such records; the first inspect
\* of the desk unlocks clue_letter.
C7_InspectUnlocksTriggered ==
  \A c \in ChatSlots :
    (chat[c].pc = "saving" /\ extractHiddenActionId(chat[c].raw) # Null) =>
      LET target_id == extractHiddenActionId(chat[c].raw)
          matching == EvidenceTriggeredBy(target_id) \cup SuspectTriggeredBy(target_id)
      IN /\ \A r \in EvidenceTriggeredBy(target_id) : r.id \in Ids(chat[c].toSave.evidence_log)
         /\ \A r \in SuspectTriggeredBy(target_id) : r.id \in Ids(chat[c].toSave.suspect_log)
         /\ Range(chat[c].newlyAddedIds) \subseteq {r.id : r \in matching}
         /\ (target_id = "desk" /\ "clue_letter" \notin
               Ids(session_progress[chat[c].sessionId].evidence_log))
              => "clue_letter" \in Range(chat[c].newlyAddedIds)

\* the engine's last call, by kind of intent
Applied(action) == eng.kind = "apply" /\ eng.intent.action = action

Known(progress) == Range(ArrayOrEmpty(progress, "knownLocations"))

LogsUnchanged ==
  /\ eng.after.evidence_log = ArrayOrEmpty(eng.before, "evidence_log")
  /\ eng.after.suspect_log = ArrayOrEmpty(eng.before, "suspect_log")

\* C6: a move changes currentLocation only if its target is in
\* knownLocations; otherwise the location is unchanged, the call returns
\* normally and nothing is reported as unlocked.
C6_MoveOnlyToKnown ==
  Applied("move") =>
    /\ eng.after.currentLocation # eng.before.currentLocation
         => eng.intent.target_id \in Known(eng.before)
    /\ eng.intent.target_id \notin Known(eng.before)
         => /\ eng.after.currentLocation = eng.before.currentLocation
            /\ eng.newClues = <<>>
            /\ eng.newSuspectInfo = <<>>
            /\ LogsUnchanged

\* a move to the kitchen while the kitchen is not a known location
C6_Witness ==
  /\ Applied("move")
  /\ eng.intent.target_id = "kitchen"
  /\ "kitchen" \notin Known(eng.before)
  /\ eng.before.currentLocation = "study"
  /\ eng.after.currentLocation = "study"

AllUnlocked(target_id, progress) ==
  /\ \A r \in EvidenceTriggeredBy(target_id) : r.id \in Ids(ArrayOrEmpty(progress, "evidence_log"))
  /\ \A r \in SuspectTriggeredBy(target_id) : r.id \in Ids(ArrayOrEmpty(progress, "suspect_log"))

\* C8: inspecting a trigger id whose records are all already unlocked reveals
\* nothing new and leaves both logs as they were.
C8_InspectIdempotent ==
  (/\ Applied("inspect")
   /\ EvidenceTriggeredBy(eng.intent.target_id) \cup SuspectTriggeredBy(eng.intent.target_id) # {}
   /\ AllUnlocked(eng.intent.target_id, eng.before))
    => /\ eng.newClues = <<>>
       /\ eng.newSuspectInfo = <<>>
       /\ LogsUnchanged

\* the desk is inspected again after its letter and alibi were unlocked
C8_Witness ==
  /\ Applied("inspect")
  /\ eng.intent.target_id = "desk"
  /\ "clue_letter" \in Ids(eng.before.evidence_log)
  /\ "info_alibi" \in Ids(eng.before.suspect_log)
  /\ Has(eng.caseData, "evidence_truth")

\* C9: inspecting a trigger id no truth record names reveals nothing, leaves
\* both logs unchanged and returns normally.
C9_RedHerring ==
  (/\ Applied("inspect")
   /\ eng.intent.target_id # Null
   /\ EvidenceTriggeredBy(eng.intent.target_id) \cup SuspectTriggeredBy(eng.intent.target_id) = {})
    => /\ eng.newClues = <<>>
       /\ eng.newSuspectInfo = <<>>
       /\ LogsUnchanged

\* the vase, which triggers nothing, is inspected with the truth arrays in
\* reach of the engine
C9_Witness ==
  /\ Applied("inspect")
  /\ eng.intent.target_id = "vase"
  /\ Has(eng.caseData, "evidence_truth")
  /\ eng.newClues = <<>>

\* C10: readSessionProgress after saveSessionProgress(sessionId, p) returns p:
\* every property of p, its currentLocation and knownLocations included, is
\* read back with the value saved (the store adds only its own columns).
C10_RoundTrip ==
  eng.kind = "roundtrip" =>
    \A k \in DOMAIN eng.before : Has(eng.after, k) /\ eng.after[k] = eng.before[k]

\* ------------------------------------------------ the intent-based handler
\* a request enters slot c in this step
Arrives(c) == ichat[c].pc \in {"idle", "done"} /\ ichat'[c] # ichat[c]

NoLetters(message) == \A i \in 1..Len(message) : ~IsAlphabetic(message[i])

\* C12: a chat message that, trimmed, has fewer than two characters or no
\* alphabetic character is answered 400 in the step it arrives, before any
\* model call, and neither the stored sessions nor the rate-limit timestamps
\* change.
C12_InvalidMessageRejected ==
  [][\A c \in IntentSlots :
       (Arrives(c) /\ (Len(ichat'[c].message) < 2 \/ NoLetters(ichat'[c].message)))
         => /\ ichat'[c].pc = "done"
            /\ ichat'[c].status = 400
            /\ ~ichat'[c].modelCalled
            /\ game_sessions' = game_sessions
            /\ lastRequestTimestamps' = lastRequestTimestamps]_vars

\* "42", two characters and no letter, has been refused
C12_Witness ==
  \E c \in IntentSlots :
    /\ ichat[c].status = 400
    /\ ichat[c].message = MsgDigits
    /\ ~ichat[c].modelCalled

\* the time the session's last admitted request arrived, 0 when there is none
LastAdmitted(s) == IF s \in DOMAIN lastRequestTimestamps THEN lastRequestTimestamps[s] ELSE 0

\* C13: a valid chat message that arrives less than 5000 ms after the
\* session's previous admitted request is answered 429 with the seconds left
\* to wait (rounded up) and is not admitted; hence two admitted requests of
\* one session are never less than 5000 ms apart.
C13_RateLimit ==
  [][/\ \A c \in IntentSlots :
          LET r == ichat'[c]
              since == clock - LastAdmitted(r.sessionId)
          IN (/\ Arrives(c)
              /\ ~(Len(r.message) < 2 \/ NoLetters(r.message))
              /\ LastAdmitted(r.sessionId) # 0
              /\ since < 5000)
               => /\ r.pc = "done"
                  /\ r.status = 429
                  /\ ~r.modelCalled
                  /\ r.error[2] * 1000 >= 5000 - since
                  /\ (r.error[2] - 1) * 1000 < 5000 - since
                  /\ lastRequestTimestamps' = lastRequestTimestamps
     /\ \A s \in DOMAIN lastRequestTimestamps' :
          (LastAdmitted(s) # 0 /\ lastRequestTimestamps'[s] # LastAdmitted(s))
            => lastRequestTimestamps'[s] - LastAdmitted(s) >= 5000]_vars

\* a request 2500 ms after the session's admitted one was told to wait 3 s
C13_Witness ==
  \E c \in IntentSlots :
    /\ ichat[c].status = 429
    /\ ichat[c].error[2] = 3
    /\ clock - LastAdmitted(ichat[c].sessionId) = 2500

\* the user turns in the stored chat history of session s, oldest first
StoredUserTurns(s) ==
  SelectSeq(ArrayOrEmpty(game_sessions[s].game_state, "chatHistory"),
            LAMBDA turn : turn.role = "user")

\* the handler of slot c passes its session lookup in this step
LooksUp(c) == ichat[c].pc = "lookup" /\ ichat'[c].pc # "lookup"

\* C11: when the sanitized message equals the session's previous two user
\* messages, the request is answered with the fixed nudge text, no model call
\* is made and the stored session (unlocked clues and all other progress)
\* is left as it was.
C11_RepetitionNudge ==
  [][\A c \in IntentSlots :
       LET r == ichat[c]
           turns_ == StoredUserTurns(r.sessionId)
           n == Len(turns_)
       IN (/\ LooksUp(c)
           /\ r.sessionId \in DOMAIN game_sessions
           /\ n >= 2
           /\ turns_[n].content = r.message
           /\ turns_[n - 1].content = r.message)
            => /\ ichat'[c].pc = "done"
               /\ ichat'[c].status = 200
               /\ ichat'[c].responseText \in {"REPETITION_WARNINGS.EN", "REPETITION_WARNINGS.TR"}
               /\ ~ichat'[c].modelCalled
               /\ ichat'[c].unlockedEvidenceIds = <<>>
               /\ game_sessions' = game_sessions]_vars

\* "check the desk" was sent a third time and drew the nudge
C11_Witness ==
  \E c \in IntentSlots :
    /\ ichat[c].pc = "done"
    /\ ichat[c].message = MsgDesk
    /\ ichat[c].responseText = "REPETITION_WARNINGS.EN"
    /\ ~ichat[c].modelCalled
    /\ Len(StoredUserTurns(ichat[c].sessionId)) = 2

\* ------------------------------------------------ POST /api/sessions, DELETE
\* C14: a POST /api/sessions that creates a session does so only when the
\* case has none, and one that answers for a case with a session returns the
\* latest session's id and stored progress with isNew = false, creating
\* nothing.
C14_ResumeElseCreateOne ==
  [][\A h \in SessSlots :
       /\ (sess[h].pc = "create" /\ sess'[h].pc = "progress")
            => SessionsOf(CaseId) = {}
       /\ (sess[h].pc = "resume" /\ sess'[h].pc = "done")
            => /\ sess'[h].status = 200
               /\ sess'[h].isNew = FALSE
               /\ sess'[h].sessionId \in fetchLatestSession(session_state, CaseId)
               /\ session_state' = session_state
               /\ session_progress' = session_progress]_vars

\* the session rows the DELETE request in flight names
NamedByDelete == {x \in DOMAIN session_state : UuidText(x) = del.sessionId}

\* C15: DELETE /api/sessions/:sessionId answers 200 exactly when a session
\* with that id existed and was deleted, 404 when there is no such session,
\* and 400, the store untouched, when the id is not UUID-shaped.
C15_DeleteAnswers ==
  [][/\ (del.pc = "state" /\ del'.pc = "done")
          => /\ del'.status = IF NamedByDelete # {} THEN 200 ELSE 404
             /\ DOMAIN session_state' = DOMAIN session_state \ NamedByDelete
     /\ (del'.started # del.started /\ ~uuidRegexTest(del'.sessionId))
          => /\ del'.status = 400
             /\ session_state' = session_state
             /\ session_progress' = session_progress]_vars

\* ------------------------------------------------ POST /api/chat, tag-based
\* a chat request enters slot c in this step
ChatArrives(c) == chat[c].pc \in {"idle", "done"} /\ chat'[c] # chat[c]

\* C16: a chat request naming a session that is not in the store is answered
\* 404 without a model call, and no session is created or modified.
C16_MissingSession404 ==
  [][\A c \in ChatSlots :
       (ChatArrives(c) /\ chat'[c].sessionId \notin DOMAIN session_state)
         => /\ chat'[c].pc = "done"
            /\ chat'[c].status = 404
            /\ session_state' = session_state
            /\ session_progress' = session_progress]_vars

\* the values of a list
Values(list) == {list[i] : i \in 1..Len(list)}

\* the ids a request's engine call added under `key`
AddedBy(r, key) == Values(ArrayOrEmpty(r.newState, key)) \ Values(ArrayOrEmpty(r.gameState, key))

\* C20: the ids a chat turn returns as newly unlocked are exactly the ids of
\* the truth records the turn added: what the new state holds and the state
\* read at the start of the turn did not.
C20_NewlyUnlockedExact ==
  [][\A c \in IntentSlots :
       (ichat[c].pc = "saving" /\ ichat'[c].pc = "done")
         => /\ Values(ichat'[c].unlockedEvidenceIds) = AddedBy(ichat[c], "unlockedClues")
            /\ Values(ichat'[c].unlockedSuspectInfoIds) = AddedBy(ichat[c], "unlockedSuspects")]_vars

\* ------------------------------------------------ the reply path
ControlTags == {TagStart, TagEnd, TagIds}

HasControlTag(text) == \E i \in 1..Len(text) : text[i] \in ControlTags

\* C19: the assistant text of a turn, as returned to the player and as
\* appended to the chat history, contains no control tag, whatever the
\* model's reply, a reply of control tags only included.
C19_NoControlTagShown ==
  eng.kind = "reply" =>
    /\ ~HasControlTag(eng.response.content)
    /\ LET history == eng.after.chat_history
       IN ~HasControlTag(history[Len(history)].content)

\* ------------------------------------------------ the tag-based handler's errors
\* C17: when the model call fails, or its answer has no text to parse, the
\* chat request is answered with a 5xx status and nothing of the upstream
\* error: only the fixed message.
C17_UpstreamFailureHidden ==
  [][\A c \in ChatSlots :
       /\ (chat[c].pc = "called" /\ chat'[c].pc = "done")
            => /\ chat'[c].status >= 500
               /\ chat'[c].details = Null
       /\ (chat[c].pc = "called" /\ chat'[c].raw = InvalidStructureText)
            => /\ chat'[c].pc = "done"
               /\ chat'[c].status >= 500]_vars

\* C18: when the progress update fails after the model has answered, the
\* request is still answered 200 with the ids the turn produced.
C18_SaveFailureTolerated ==
  [][\A c \in ChatSlots :
       (chat[c].pc = "saving" /\ chat'[c].pc = "done")
         => /\ chat'[c].status = 200
            /\ chat'[c].newlyAddedIds = chat[c].newlyAddedIds
            /\ chat'[c].skippedIds = chat[c].skippedIds]_vars

\* ------------------------------------------------ location invariants
\* the start location of the case
StartLocationId == getCaseInitialData(InitialRow, ImmutableRow).initialLocationId

\* C21: the knownLocations of a session contain the case's start location in
\* every state: in the state a chat turn works on, and in the progress it is
\* about to save.
C21_KnownLocationsHoldStart ==
  \A c \in ChatSlots :
    /\ chat[c].pc = "called"
         => StartLocationId \in Range(ArrayOrEmpty(chat[c].newState, "knownLocations"))
    /\ chat[c].pc = "saving"
         => StartLocationId \in Range(ArrayOrEmpty(chat[c].toSave, "knownLocations"))

\* the location ids of the case's location graph
LocationIds == Ids(getCaseImmutableRecords(ImmutableRow).locationData)

\* C22: the currentLocation of a session is always the id of a location of
\* the case: the start location when the session is first read, and after a
\* call of the engine either what it was or a member of knownLocations.
C22_CurrentLocationValid ==
  /\ Has(eng.after, "currentLocation")
  /\ eng.after.currentLocation \in LocationIds
  /\ eng.kind = "start" => eng.after.currentLocation = StartLocationId
  /\ eng.kind = "apply" =>
       \/ eng.after.currentLocation = eng.before.currentLocation
       \/ eng.after.currentLocation \in Known(eng.before)

\* a move to the kitchen, a known location, has changed the current location
C22_Witness ==
  /\ Applied("move")
  /\ eng.before.currentLocation = "study"
  /\ eng.after.currentLocation = "kitchen"
  /\ "kitchen" \in Known(eng.before)

\* ------------------------------------------------ summarization
\* C23: the summarization call is issued again and again as the chat history
\* grows, at least once per 10 history entries (one period of grace): a
\* history of 10 * k entries has seen at least k - 1 calls, whether or not
\* the session began with the start_game message.
C23_SummarizedEveryPeriod ==
  eng.kind = "turn" =>
    eng.calls + 1 >= Len(eng.after.chat_history) \div 10

\* ------------------------------------------------ chat history and memory
IsSuffix(short, long) ==
  /\ Len(short) <= Len(long)
  /\ \A i \in 1..Len(short) : short[i] = long[Len(long) - Len(short) + i]

\* C24: in the progress a turn persists, last_five_messages has at most 10
\* entries and is the tail of chat_history, in the same order.
C24_ShortTermMemoryIsTail ==
  eng.kind = "reply" =>
    /\ Len(eng.toSave.last_five_messages) <= 10
    /\ IsSuffix(eng.toSave.last_five_messages, eng.toSave.chat_history)
    /\ Len(eng.toSave.chat_history) > 0 => Len(eng.toSave.last_five_messages) > 0

\* the history has outgrown the memory: six entries, the last five kept
C24_Witness ==
  /\ eng.kind = "reply"
  /\ Len(eng.toSave.chat_history) = 6
  /\ Len(eng.toSave.last_five_messages) = 5

IsPrefix(short, long) ==
  /\ Len(short) <= Len(long)
  /\ \A i \in 1..Len(short) : short[i] = long[i]

\* the entries a turn with this message and this reply adds to the history
TurnPair(message, reply) == << [role |-> "user", content |-> message], aiResponse(reply) >>

\* C25: the stored chat history is append-only: in every step that writes a
\* session's progress, the chat_history stored before the step is a prefix of
\* the one stored after it, and the step adds the user message followed by
\* the assistant reply of the turn that writes.
C25_HistoryAppendOnly ==
  [][\A c \in ChatSlots :
       (chat[c].pc = "saving" /\ chat'[c].pc = "touching") =>
         LET s == chat[c].sessionId
             before == session_progress[s].chat_history
             after == session_progress'[s].chat_history
         IN /\ IsPrefix(before, after)
            /\ after = before \o TurnPair(chat[c].message, chat[c].raw)]_vars

\* the records a turn added to the logs of the state it was given
UnlockedInTurn(before, after) ==
  { r \in Range(ArrayOrEmpty(after, "evidence_log")) \cup Range(ArrayOrEmpty(after, "suspect_log")) :
      r.id \notin LogIds(before) }

AbsentFromGraph(initialLocationId) ==
  initialLocationId \notin Ids(getCaseImmutableRecords(ImmutableRow).locationData)

\* C27: createSession called with a start location id that is absent from
\* the location graph fails with the not-found error before writing
\* anything: both tables are as they were when the call was made.
C27_AbsentStartWritesNothing ==
  (eng.kind = "create" /\ AbsentFromGraph(eng.initialLocationId)) =>
    /\ eng.pc = "done"
    /\ eng.error = NotFoundError
    /\ session_state = eng.stateBefore
    /\ session_progress = eng.progressBefore

\* a call with an absent start id made when a session already exists
C27_Witness ==
  /\ eng.kind = "create"
  /\ AbsentFromGraph(eng.initialLocationId)
  /\ eng.error = NotFoundError
  /\ DOMAIN session_progress # {}

\* ----------------------------------------------------------- parseIntent
\* the keyword stands in the message as a word of its own, letter case aside
OccursAsWord(keyword, message) ==
  LET msg == toLowerCase(message)
      kw == toLowerCase(keyword)
  IN \E i \in 1..(Len(msg) - Len(kw) + 1) :
       /\ SubSeq(msg, i, i + Len(kw) - 1) = kw
       /\ (i = 1 \/ msg[i - 1] = Space)
       /\ (i + Len(kw) - 1 = Len(msg) \/ msg[i + Len(kw)] = Space)

\* the entries of a list one of whose keywords satisfies the test
InspectHits(interactables, message) ==
  {i \in 1..Len(interactables) :
     \E k \in Range(interactables[i].keywords) : OccursAsWord(k, message)}

MoveHits(locations, message) ==
  {i \in 1..Len(locations) :
     \E k \in Range(locations[i].keywords) : includes(toLowerCase(message), toLowerCase(k))}

HasCue(cues, message) == \E k \in Range(cues) : includes(toLowerCase(message), k)

\* C28: parseIntent resolves by priority: inspect of the first interactable
\* of the current location (in list order) with a keyword occurring as a
\* whole word, whatever other cues the message has; else move to the first
\* location with a matching keyword when a movement cue is present; else
\* talk with target 'suspect' when a talk cue is present; else chat with a
\* null target.
C28_IntentPriority ==
  eng.kind = "parse" =>
    LET locations == getCaseData(CasesRow).locations
        here == FindLocation(locations, eng.gameState.currentLocation)[1]
        inspectable == InspectHits(here.interactables, eng.message)
        reachable == MoveHits(locations, eng.message)
    IN IF inspectable # {}
       THEN /\ eng.result.action = "inspect"
            /\ eng.result.target_id = here.interactables[Min(inspectable)].id
       ELSE IF HasCue(moveKeywords, eng.message) /\ reachable # {}
       THEN /\ eng.result.action = "move"
            /\ eng.result.target_id = locations[Min(reachable)].id
       ELSE IF HasCue(talkKeywords, eng.message)
       THEN /\ eng.result.action = "talk"
            /\ eng.result.target_id = "suspect"
       ELSE /\ eng.result.action = "chat"
            /\ eng.result.target_id = Null

\* a message with a movement cue and a location keyword that also names
\* the desk of the current location: the result is the inspect of the desk
C28_Witness ==
  /\ eng.kind = "parse"
  /\ eng.gameState.currentLocation = "study"
  /\ HasCue(moveKeywords, eng.message)
  /\ MoveHits(getCaseData(CasesRow).locations, eng.message) # {}
  /\ OccursAsWord(<<"d","e","s","k">>, eng.message)
  /\ eng.result.action = "inspect"
  /\ eng.result.target_id = "desk"

\* ------------------------------------------------- inspect and location
\* ids of the objects inspectable at a location of the case
InteractablesAt(locationId) ==
  LET found == FindLocation(getCaseImmutableRecords(ImmutableRow).locationData, locationId)
  IN IF found = <<>> THEN {} ELSE Ids(found[1].interactables)

\* C29: every inspect applied to a session's state, the one of the model's
\* hidden action tag included, has a target that is an interactable of the
\* session's currentLocation, and every record a turn unlocks is triggered by
\* such an object.
C29_InspectOnlyHere ==
  (eng.kind = "reply" /\ extractHiddenActionId(eng.raw) # Null) =>
    /\ extractHiddenActionId(eng.raw) \in InteractablesAt(eng.before.currentLocation)
    /\ \A r \in UnlockedInTurn(eng.before, eng.after) :
         r.trigger_object_id \in InteractablesAt(eng.before.currentLocation)

\* ------------------------------------------------ purity of the engine
\* C30: updateGameState leaves the progress object it was given as it was:
\* after the call the object, its evidence_log and suspect_log included, is
\* equal to the object before the call, so that a second call with the same
\* object returns the same result.
C30_ArgumentUntouched ==
  eng.kind = "apply" =>
    /\ eng.argument = eng.before
    /\ updateGameState(eng.intent, eng.argument, eng.caseData).newClues = eng.newClues
    /\ updateGameState(eng.intent, eng.argument, eng.caseData).newSuspectInfo = eng.newSuspectInfo

\* --------------------------------------------- resolver and engine totality
\* C31: for every message and every progress record createSession produced,
\* parseIntent returns one of inspect, move, talk and chat, and
\* updateGameState returns a result: it does not raise.
C31_ResolverAndEngineTotal ==
  /\ eng.kind \in {"parsed", "updated"} =>
       eng.intent.action \in {"inspect", "move", "talk", "chat"}
  /\ eng.kind = "updated" => ~eng.threw

\* C32: a turn whose summarization call fails goes on to the main model call
\* with the previous summary in its context, is answered 200 with the reply
\* appended when that call answers, and leaves ai_core_summary as it was.
C32_SummaryFailureTolerated ==
  (eng.kind = "turn" /\ eng.due /\ eng.summary = Null) =>
    /\ eng.context = eng.before.ai_core_summary
    /\ eng.after.ai_core_summary = eng.before.ai_core_summary
    /\ eng.status = 200 =>
         /\ Len(eng.after.chat_history) > Len(eng.before.chat_history)
         /\ eng.after.chat_history[Len(eng.after.chat_history)].role = "assistant"

\* a turn whose summarization call was due and failed, answered 200
C32_Witness ==
  /\ eng.kind = "turn"
  /\ eng.due
  /\ eng.summary = Null
  /\ eng.status = 200
  /\ Len(eng.after.chat_history) = 11

\* ------------------------------------------------------ logs without repeats
NoRepeatedId(log) ==
  \A i, j \in 1..Len(log) : log[i].id = log[j].id => i = j

\* C33: neither the evidence log nor the suspect log of a session, as a turn
\* leaves it and as the turn is about to store it, holds two entries with
\* the same id, whatever hidden-action inspects and model-supplied ids the
\* turns carried.
C33_LogsWithoutRepeats ==
  eng.kind \in {"start", "reply"} =>
    /\ NoRepeatedId(ArrayOrEmpty(eng.after, "evidence_log"))
    /\ NoRepeatedId(ArrayOrEmpty(eng.after, "suspect_log"))
    /\ NoRepeatedId(ArrayOrEmpty(eng.toSave, "evidence_log"))
    /\ NoRepeatedId(ArrayOrEmpty(eng.toSave, "suspect_log"))

\* a turn whose reply names the desk and lists clue_letter, for a session
\* that has both the letter and the alibi in its logs already
C33_Witness ==
  /\ eng.kind = "reply"
  /\ eng.raw = ReplyDesk
  /\ "clue_letter" \in Ids(eng.before.evidence_log)
  /\ "info_alibi" \in Ids(eng.before.suspect_log)
  /\ "clue_letter" \in Ids(eng.after.evidence_log)
  /\ "clue_knife" \in Ids(eng.after.evidence_log)

\* ------------------------------------------------ cooldown of rejections
\* C34: a chat request answered 400 or 429 leaves the rate-limit timestamps
\* as they were, and a valid request that arrives 5000 ms or more after the
\* session's last admitted request is admitted (it is not answered 429 and
\* its arrival time becomes the session's timestamp), however many requests
\* were rejected in between.
C34_RejectionKeepsCooldown ==
  [][\A c \in IntentSlots :
       LET r == ichat'[c]
       IN Arrives(c) =>
            /\ (r.status \in {400, 429}) => lastRequestTimestamps' = lastRequestTimestamps
            /\ (/\ ~(Len(r.message) < 2 \/ NoLetters(r.message))
                /\ LastAdmitted(r.sessionId) # 0
                /\ clock - LastAdmitted(r.sessionId) >= 5000)
                 => /\ r.status # 429
                    /\ r.pc = "lookup"
                    /\ lastRequestTimestamps'[r.sessionId] = clock]_vars

\* a request was answered 429 and the clock has since reached 5000 ms after
\* the session's admitted request: the timestamp is still that request's
C34_Witness ==
  \E c \in IntentSlots :
    /\ ichat[c].status = 429
    /\ LastAdmitted(ichat[c].sessionId) # 0
    /\ clock - LastAdmitted(ichat[c].sessionId) = 5000

\* ------------------------------------------------ the nudge persists
\* the last two stored user turns of session s both have this content
StoredTwice(s, message) ==
  /\ s \in DOMAIN game_sessions
  /\ LET stored == StoredUserTurns(s)
     IN /\ Len(stored) >= 2
        /\ stored[Len(stored)].content = message
        /\ stored[Len(stored) - 1].content = message

StoredTwiceNext(s, message) ==
  /\ s \in DOMAIN game_sessions'
  /\ LET stored == SelectSeq(ArrayOrEmpty(game_sessions'[s].game_state, "chatHistory"),
                             LAMBDA turn : turn.role = "user")
     IN /\ Len(stored) >= 2
        /\ stored[Len(stored)].content = message
        /\ stored[Len(stored) - 1].content = message

\* C35 as stated: once a message is the session's last two user turns, every
\* further request with that message is on its way to the nudge: none is
\* answered otherwise.
C35_EveryRepeatNudged ==
  [][\A c \in IntentSlots :
       (Arrives(c) /\ StoredTwice(ichat'[c].sessionId, ichat'[c].message))
         => ichat'[c].pc = "lookup"]_vars

\* C35: a message answered with the repetition nudge is not appended to the
\* chat history; so once a message is the content of the session's last two
\* stored user turns, every further request with that message that passes
\* validation and rate limiting is answered with the nudge and no model
\* call, and the two turns stay the last stored ones until the turn of a
\* different message is saved.
C35_NudgePersists ==
  [][\A c \in IntentSlots :
       LET r == ichat[c]
       IN /\ (LooksUp(c) /\ StoredTwice(r.sessionId, r.message))
               => /\ ichat'[c].pc = "done"
                  /\ ichat'[c].responseText = repetitionWarning(r.message)
                  /\ ~ichat'[c].modelCalled
                  /\ StoredTwiceNext(r.sessionId, r.message)
          /\ \A message \in IntentMessages :
               (StoredTwice(r.sessionId, message) /\ ~StoredTwiceNext(r.sessionId, message))
                 => (r.pc = "saving" /\ r.message # trim(message))]_vars

\* "go to study" was stored twice, was sent again and drew the nudge, and is
\* still the session's last two user turns
C35_Witness ==
  \E c \in IntentSlots :
    /\ ichat[c].pc = "done"
    /\ ichat[c].message = MsgGoStudy
    /\ ~ichat[c].modelCalled
    /\ ichat[c].responseText = repetitionWarning(MsgGoStudy)
    /\ StoredTwice(ichat[c].sessionId, MsgGoStudy)

\* ------------------------------------------------ delete during a turn
\* deleteSession for session s has run both its store operations
DeleteCompleted(s) ==
  del.pc = "done" /\ del.status # 400 /\ del.sessionId = UuidText(s)

\* C36: when a chat turn's save (the progress update, then the updated_at
\* touch) runs after deleteSession completed for its session, neither table
\* has a row for that session afterwards.
C36_DeletedStaysDeleted ==
  [][\A c \in ChatSlots :
       (/\ chat[c].pc \in {"saving", "touching"}
        /\ chat'[c].pc # chat[c].pc
        /\ DeleteCompleted(chat[c].sessionId))
         => /\ chat[c].sessionId \notin DOMAIN session_progress'
            /\ chat[c].sessionId \notin DOMAIN session_state']_vars

\* a turn that read its session before the delete has run its progress
\* update, the delete is complete, and the session has no row
C36_Witness ==
  \E c \in ChatSlots :
    /\ chat[c].pc = "touching"
    /\ DeleteCompleted(chat[c].sessionId)
    /\ chat[c].sessionId \notin DOMAIN session_progress
    /\ chat[c].sessionId \notin DOMAIN session_state

\* ------------------------------------------------------ paired rows
\* C37: whenever no createSession or deleteSession call is in progress, a
\* session_state row exists for a session id if and only if a
\* session_progress row exists for it, store failures included.
C37_RowsPaired ==
  (eng.pc = "done" /\ del.pc \in {"idle", "done"})
    => DOMAIN session_state = DOMAIN session_progress

\* ------------------------------------------------- one save per turn
\* The tag-based handler writes stored progress of a session in step 5 only,
\* the step that follows the model's reply.
ProgressWrittenInStepFive ==
  [][\A s \in DOMAIN session_progress :
       (s \in DOMAIN session_progress' /\ session_progress'[s] # session_progress[s])
         => \E c \in ChatSlots :
              /\ chat[c].sessionId = s
              /\ chat[c].pc = "saving"
              /\ chat'[c].pc = "touching"]_vars

\* C38: a chat turn that a guard rejected or whose model call failed leaves
\* the persisted progress of the session exactly as it was when the turn
\* began; progress is written only after the model's reply.
C38_SavedOnlyAfterReply ==
  (eng.pc = "done" /\ eng.outcome \in {"rejected", "failed"})
    => game_sessions = eng.tableBefore

====
